---- MODULE Spec2Model ----
(***************************************************************************)
(* Lumo-Stellar: trip request form (RequestTrip.tsx), mobile wallet        *)
(* connection (walletRoutes.ts, MobileWalletConnect.tsx) and Stellar       *)
(* payment settlement (payment routes, stellarService.ts, AutoPayButton).  *)
(***************************************************************************)
EXTENDS Integers, Sequences, FiniteSets, TLC

NULL == "null"                 \* JavaScript null / undefined where a string is expected
Null == [null |-> TRUE]        \* JavaScript null / undefined where an object is expected
NaN == [nan |-> TRUE, value |-> 0]     \* JavaScript NaN
Num(v) == [nan |-> FALSE, value |-> v] \* a JavaScript number that is not NaN

Min(a, b) == IF a <= b THEN a ELSE b
Max(a, b) == IF a >= b THEN a ELSE b

(***************************************************************************)
(* Bounds                                                                  *)
(***************************************************************************)
MaxInputLen == 2        \* longest text typed into the passengers input
MaxTime == 2            \* datetime-local values are 1..MaxTime
MaxTicks == 2          \* the clock is observed at MaxTicks later instants
MaxOps == 2            \* a looked-up transaction carries up to MaxOps operations
MaxPending == 4        \* status checks a component has in flight at once
MaxSubmits == 2        \* runs of handlePay followed after a successful submission

(***************************************************************************)
(* RequestTrip form                                                        *)
(***************************************************************************)
VARIABLES origin, destination, routeInfo, passengers, isRoundTrip,
          returnScheduledAt, scheduledAt, preferredVehicleType, isLoading,
          userCountry, submitPc, snap, priceCall, tripData, toastError,
          routeCall

formVars == <<origin, destination, routeInfo, passengers, isRoundTrip,
              returnScheduledAt, scheduledAt, preferredVehicleType, isLoading,
              userCountry, submitPc, snap, priceCall, tripData, toastError,
              routeCall>>

VehicleTypes == {"SEDAN", "LUXURY", "SUV", "VAN"}
VehicleChoices == {"ANY"} \cup VehicleTypes

\* Countries a place, or the user's profile, can carry; "" is an absent country.
OriginCountries == {"", "MX"}
DestinationCountries == {"", "AR"}
UserCountries == {NULL, "PE"}
Distances == {3, 10}
TimePrices == {0, 7}

\* Characters the user can type into the passengers input.
InputChars == {"-", "0", "3", "9", "x", " "}
Digits == {"0", "3", "9"}
DigitValue(c) == CASE c = "0" -> 0 [] c = "3" -> 3 [] c = "9" -> 9

RECURSIVE SeqsUpTo(_)
SeqsUpTo(n) ==
    IF n = 0 THEN {<<>>}
    ELSE LET shorter == SeqsUpTo(n - 1)
         IN shorter \cup {Append(s, c) : s \in {t \in shorter : Len(t) = n - 1}, c \in InputChars}

PassengerInputs == SeqsUpTo(MaxInputLen)

\* datetime-local values: the empty text, an unparsable text, or a time 1..MaxTime.
EmptyDate == 0
InvalidDate == -1
NoDate == 0                    \* an undefined date field of the submitted trip
DateInputs == {EmptyDate, InvalidDate} \cup (1..MaxTime)

RECURSIVE SkipSpaces(_)
SkipSpaces(s) == IF s # <<>> /\ Head(s) = " " THEN SkipSpaces(Tail(s)) ELSE s

RECURSIVE DigitsValue(_, _)
\* value of the longest digit prefix of s, acc is the value read so far
DigitsValue(s, acc) ==
    IF s # <<>> /\ Head(s) \in Digits
    THEN DigitsValue(Tail(s), acc * 10 + DigitValue(Head(s)))
    ELSE acc

\* JavaScript parseInt(text): leading white space, an optional sign, then
\* decimal digits up to the first other character; NaN without a digit.
ParseInt(text) ==
    LET s == SkipSpaces(text)
        neg == s # <<>> /\ Head(s) = "-"
        body == IF neg THEN Tail(s) ELSE s
    IN IF body = <<>> \/ Head(body) \notin Digits THEN NaN
       ELSE IF neg THEN Num(0 - DigitsValue(body, 0)) ELSE Num(DigitsValue(body, 0))

\* JavaScript truthiness of a number (NaN and 0 are falsy).
TruthyNumber(v) == ~v.nan /\ v.value # 0

ClampNoUpper(value) == Max(value, 1)
\* Math.min(Math.max(value, 1), 7)
Clamp(value) == Min(Max(value, 1), 7)

\* onChange of the passengers input: parseInt(e.target.value) || 1, clamped
PassengersOnChange(text) ==
    LET parsed == ParseInt(text)
        value == IF TruthyNumber(parsed) THEN parsed.value ELSE 1
    IN Clamp(value)

\* The values the onChange handler can store, over every text typed
PassengerValues == {PassengersOnChange(text) : text \in PassengerInputs}

TripCountryDestinationFirst(o, d, u) ==
    IF d.country # "" THEN d.country
    ELSE IF o.country # "" THEN o.country
    ELSE IF u # NULL THEN u
    ELSE "CL"
\* origin.country || destination.country || user?.country || 'CL'
TripCountry(o, d, u) ==
    IF o.country # "" THEN o.country
    ELSE IF d.country # "" THEN d.country
    ELSE IF u # NULL THEN u
    ELSE "CL"

VehicleTypeArgDropped(pvt) == NULL
\* preferredVehicleType !== 'ANY' ? preferredVehicleType : undefined
VehicleTypeArg(pvt) == IF pvt # "ANY" THEN pvt ELSE NULL

\* Pricing table of the backend pricing service (per country).
BasePriceOf(country) ==
    CASE country = "CL" -> 1500 [] country = "MX" -> 35
      [] country = "AR" -> 900 [] country = "PE" -> 5
RatePerKmOf(country) ==
    CASE country = "CL" -> 700 [] country = "MX" -> 20
      [] country = "AR" -> 400 [] country = "PE" -> 100

SedanDiscountPercent == 35

\* Per-kilometre rate after the vehicle-type discount, in hundredths.
RatePerKmHundredths(country, vehicleType) ==
    IF vehicleType = "SEDAN"
    THEN RatePerKmOf(country) * (100 - SedanDiscountPercent)
    ELSE RatePerKmOf(country) * 100

\* api.calculatePrice(distance, country, vehicleType): the one-way pricing.
CalculatePrice(distance, country, vehicleType, timePrice) ==
    LET base == BasePriceOf(country)
        dist == (distance * RatePerKmHundredths(country, vehicleType)) \div 100
    IN [basePrice |-> base, distancePrice |-> dist, timePrice |-> timePrice,
        totalPrice |-> base + dist + timePrice, currency |-> country]

RoundTripPricesTotalNotDoubled(isRT, P) ==
    [basePrice |-> IF isRT THEN P.basePrice * 2 ELSE P.basePrice,
     distancePrice |-> IF isRT THEN P.distancePrice * 2 ELSE P.distancePrice,
     timePrice |-> IF isRT THEN P.timePrice * 2 ELSE P.timePrice,
     totalPrice |-> P.totalPrice]
\* "Si es ida y vuelta, duplicar precios"
RoundTripPrices(isRT, P) ==
    [basePrice |-> IF isRT THEN P.basePrice * 2 ELSE P.basePrice,
     distancePrice |-> IF isRT THEN P.distancePrice * 2 ELSE P.distancePrice,
     timePrice |-> IF isRT THEN P.timePrice * 2 ELSE P.timePrice,
     totalPrice |-> IF isRT THEN P.totalPrice * 2 ELSE P.totalPrice]

\* !isNaN(new Date(text).getTime())
ValidDate(text) == text \in 1..MaxTime

\* formattedScheduledAt / formattedReturnScheduledAt: the ISO instant of a
\* non-empty valid text, undefined otherwise
FormatDate(text) == IF text # EmptyDate /\ ValidDate(text) THEN text ELSE NoDate

FormInit ==
    /\ origin = Null
    /\ destination = Null
    /\ routeInfo = Null
    /\ passengers = 1
    /\ isRoundTrip = FALSE
    /\ returnScheduledAt = EmptyDate
    /\ scheduledAt = EmptyDate
    /\ preferredVehicleType = "ANY"
    /\ isLoading = FALSE
    /\ userCountry = NULL
    /\ submitPc = "idle"
    /\ snap = Null
    /\ priceCall = Null
    /\ tripData = Null
    /\ toastError = NULL
    /\ routeCall = Null

\* The form can be edited while no submission is in flight; a submission in
\* flight works on the values its closure captured (snap).
Editable == submitPc = "idle"

\* useAuth(): the profile of the signed-in user arrives
UserLoaded ==
    /\ Editable
    /\ origin = Null /\ destination = Null
    /\ userCountry = NULL
    /\ \E c \in UserCountries \ {NULL} : userCountry' = c
    /\ UNCHANGED <<origin, destination, routeInfo, passengers, isRoundTrip,
                   returnScheduledAt, scheduledAt, preferredVehicleType, isLoading,
                   submitPc, snap, priceCall, tripData, toastError,
                   routeCall>>

\* handleSelectOrigin: setOrigin(details)
HandleSelectOrigin ==
    /\ Editable
    /\ toastError' = NULL
    /\ \E c \in OriginCountries : origin' = [country |-> c]
    /\ UNCHANGED <<destination, routeInfo, passengers, isRoundTrip, returnScheduledAt,
                   scheduledAt, preferredVehicleType, isLoading, userCountry,
                   submitPc, snap, priceCall, tripData,
                   routeCall>>

\* handleSelectDestination: setDestination(details)
HandleSelectDestination ==
    /\ Editable
    /\ toastError' = NULL
    /\ \E c \in DestinationCountries : destination' = [country |-> c]
    /\ UNCHANGED <<origin, routeInfo, passengers, isRoundTrip, returnScheduledAt,
                   scheduledAt, preferredVehicleType, isLoading, userCountry,
                   submitPc, snap, priceCall, tripData,
                   routeCall>>

\* calculateRouteAndPrice: the routing service answers a route, null or throws
CalculateRouteAndPrice ==
    /\ Editable
    /\ toastError' = NULL
    /\ origin # Null /\ destination # Null
    /\ routeCall' = [origin |-> origin, destination |-> destination,
                      user |-> userCountry,
                      country |-> TripCountry(origin, destination, userCountry)]
    /\ \/ \E dist \in Distances : routeInfo' = [distance |-> dist]
       \/ routeInfo' = Null
    /\ UNCHANGED <<origin, destination, passengers, isRoundTrip, returnScheduledAt,
                   scheduledAt, preferredVehicleType, isLoading, userCountry,
                   submitPc, snap, priceCall, tripData>>

\* passengers input onChange
SetPassengers ==
    /\ Editable
    /\ toastError' = NULL
    /\ \E p \in PassengerValues : passengers' = p
    /\ UNCHANGED <<origin, destination, routeInfo, isRoundTrip, returnScheduledAt,
                   scheduledAt, preferredVehicleType, isLoading, userCountry,
                   submitPc, snap, priceCall, tripData,
                   routeCall>>

\* isRoundTrip checkbox onChange
SetIsRoundTrip ==
    /\ Editable
    /\ toastError' = NULL
    /\ isRoundTrip' = ~isRoundTrip
    /\ UNCHANGED <<origin, destination, routeInfo, passengers, returnScheduledAt,
                   scheduledAt, preferredVehicleType, isLoading, userCountry,
                   submitPc, snap, priceCall, tripData,
                   routeCall>>

\* returnScheduledAt input onChange (rendered only when isRoundTrip)
SetReturnScheduledAt ==
    /\ Editable
    /\ toastError' = NULL
    /\ isRoundTrip
    /\ \E v \in DateInputs : returnScheduledAt' = v
    /\ UNCHANGED <<origin, destination, routeInfo, passengers, isRoundTrip,
                   scheduledAt, preferredVehicleType, isLoading, userCountry,
                   submitPc, snap, priceCall, tripData,
                   routeCall>>

\* scheduledDate / scheduledTime inputs and the effect combining them
SetScheduledAt ==
    /\ Editable
    /\ toastError' = NULL
    /\ \E v \in DateInputs : scheduledAt' = v
    /\ UNCHANGED <<origin, destination, routeInfo, passengers, isRoundTrip,
                   returnScheduledAt, preferredVehicleType, isLoading, userCountry,
                   submitPc, snap, priceCall, tripData,
                   routeCall>>

\* vehicle type select onValueChange
SetPreferredVehicleType ==
    /\ Editable
    /\ toastError' = NULL
    /\ \E v \in VehicleChoices : preferredVehicleType' = v
    /\ UNCHANGED <<origin, destination, routeInfo, passengers, isRoundTrip,
                   returnScheduledAt, scheduledAt, isLoading, userCountry,
                   submitPc, snap, priceCall, tripData,
                   routeCall>>

MissingInputErrorRouteUnchecked(o, d, r) ==
    IF o = Null \/ d = Null THEN "selectBothLocations" ELSE NULL
\* The two early returns of handleSubmit: the error it reports when origin,
\* destination or routeInfo is missing, none when all three are set
MissingInputError(o, d, r) ==
    IF o = Null \/ d = Null THEN "selectBothLocations"
    ELSE IF r = Null THEN "calculateRouteFirst"
    ELSE NULL

\* handleSubmit up to its first await (api.calculatePrice)
HandleSubmit ==
    /\ submitPc = "idle"
    /\ UNCHANGED <<priceCall, tripData>>
    /\ IF MissingInputError(origin, destination, routeInfo) # NULL
       THEN /\ toastError' = MissingInputError(origin, destination, routeInfo)
            /\ UNCHANGED <<isLoading, submitPc, snap>>
       ELSE IF isRoundTrip /\ returnScheduledAt = EmptyDate
       THEN /\ toastError' = "returnDateRequired"
            /\ isLoading' = FALSE
            /\ UNCHANGED <<submitPc, snap>>
       ELSE /\ isLoading' = TRUE
            /\ toastError' = NULL
            /\ snap' = [origin |-> origin, destination |-> destination,
                        routeInfo |-> routeInfo, passengers |-> passengers,
                        isRoundTrip |-> isRoundTrip,
                        returnScheduledAt |-> returnScheduledAt,
                        scheduledAt |-> scheduledAt,
                        preferredVehicleType |-> preferredVehicleType,
                        tripCountry |-> TripCountry(origin, destination, userCountry)]
            /\ submitPc' = "pricing"
    /\ UNCHANGED <<origin, destination, routeInfo, passengers, isRoundTrip,
                   returnScheduledAt, scheduledAt, preferredVehicleType, userCountry,
                   routeCall>>

\* api.calculatePrice answers: handleSubmit builds tripData and calls api.createTrip
PriceReturns ==
    /\ submitPc = "pricing"
    /\ \E tp \in TimePrices :
         LET vt == VehicleTypeArg(snap.preferredVehicleType)
             P == CalculatePrice(snap.routeInfo.distance, snap.tripCountry, vt, tp)
             prices == RoundTripPrices(snap.isRoundTrip, P)
         IN /\ priceCall' = [distance |-> snap.routeInfo.distance,
                             country |-> snap.tripCountry,
                             vehicleType |-> vt, result |-> P]
            /\ tripData' =
                 [scheduledAt |-> FormatDate(snap.scheduledAt),
                  returnScheduledAt |->
                      IF snap.isRoundTrip THEN FormatDate(snap.returnScheduledAt) ELSE NoDate,
                  passengers |-> Clamp(snap.passengers),
                  isRoundTrip |-> snap.isRoundTrip,
                  preferredVehicleType |-> vt,
                  distance |-> snap.routeInfo.distance,
                  basePrice |-> prices.basePrice,
                  distancePrice |-> prices.distancePrice,
                  timePrice |-> prices.timePrice,
                  totalPrice |-> prices.totalPrice,
                  currency |-> P.currency]
    /\ submitPc' = "creating"
    /\ UNCHANGED <<origin, destination, routeInfo, passengers, isRoundTrip,
                   returnScheduledAt, scheduledAt, preferredVehicleType, isLoading,
                   userCountry, snap, toastError,
                   routeCall>>

\* api.calculatePrice throws: catch, toast, finally setIsLoading(false)
PriceThrows ==
    /\ submitPc = "pricing"
    /\ submitPc' = "idle"
    /\ isLoading' = FALSE
    /\ toastError' = "requestError"
    /\ snap' = Null
    /\ priceCall' = Null
    /\ tripData' = Null
    /\ UNCHANGED <<origin, destination, routeInfo, passengers, isRoundTrip,
                   returnScheduledAt, scheduledAt, preferredVehicleType, userCountry,
                   routeCall>>

\* api.createTrip answers: toast.success, navigate away from the form
CreateTripReturns ==
    /\ submitPc = "creating"
    /\ submitPc' = "navigated"
    /\ isLoading' = FALSE
    /\ UNCHANGED <<origin, destination, routeInfo, passengers, isRoundTrip,
                   returnScheduledAt, scheduledAt, preferredVehicleType,
                   userCountry, snap, priceCall, tripData, toastError,
                   routeCall>>

\* api.createTrip throws: catch, toast, finally setIsLoading(false)
CreateTripThrows ==
    /\ submitPc = "creating"
    /\ submitPc' = "idle"
    /\ isLoading' = FALSE
    /\ toastError' = "requestError"
    /\ snap' = Null
    /\ priceCall' = Null
    /\ tripData' = Null
    /\ UNCHANGED <<origin, destination, routeInfo, passengers, isRoundTrip,
                   returnScheduledAt, scheduledAt, preferredVehicleType, userCountry,
                   routeCall>>

FormNext ==
    \/ UserLoaded
    \/ HandleSelectOrigin
    \/ HandleSelectDestination
    \/ CalculateRouteAndPrice
    \/ SetPassengers
    \/ SetIsRoundTrip
    \/ SetReturnScheduledAt
    \/ SetScheduledAt
    \/ SetPreferredVehicleType
    \/ HandleSubmit
    \/ PriceReturns
    \/ PriceThrows
    \/ CreateTripReturns
    \/ CreateTripThrows

(***************************************************************************)
(* Mobile wallet connection                                                *)
(***************************************************************************)
VARIABLES userStellarAddress, walletLast, mwcMounted, mwcToken, mwcAddress,
          mwcError, mwcIsConnected, mwcCall

walletVars == <<userStellarAddress, walletLast, mwcMounted, mwcToken, mwcAddress,
                mwcError, mwcIsConnected, mwcCall>>

Users == {"u1", "u2"}
Tokens == {"tokA", "tokB"}

AddressLength == 56

\* A text of n characters: first, then fill, and last as its final character.
Text(first, fill, last, n) ==
    [i \in 1..n |-> IF i = 1 THEN first ELSE IF i = n THEN last ELSE fill]

AddrG1 == Text("G", "A", "A", AddressLength)
AddrG2 == Text("G", "B", "B", AddressLength)
AddrShort == Text("G", "A", "A", AddressLength - 1)
AddrLong == Text("G", "A", "A", AddressLength + 1)
AddrNotG == Text("S", "A", "A", AddressLength)
AddrTrailingSpace == Text("G", "A", " ", AddressLength)
AddrBlank == Text(" ", " ", " ", 2)
AddrEmpty == <<>>

AddrTexts == {AddrG1, AddrG2, AddrShort, AddrLong, AddrNotG, AddrTrailingSpace,
              AddrBlank, AddrEmpty}

\* No stored address (the column is NULL).
NoAddress == <<"null">>

\* req.body.stellarAddress: absent, a value that is not a string, or a string
AddrBodies ==
    {[type |-> "undefined", text |-> <<>>], [type |-> "number", text |-> <<>>]}
        \cup {[type |-> "string", text |-> t] : t \in AddrTexts}

RECURSIVE TrimLeft(_)
TrimLeft(t) == IF t # <<>> /\ Head(t) = " " THEN TrimLeft(Tail(t)) ELSE t

RECURSIVE TrimRight(_)
TrimRight(t) ==
    IF t # <<>> /\ t[Len(t)] = " " THEN TrimRight(SubSeq(t, 1, Len(t) - 1)) ELSE t

\* String.prototype.trim
Trim(t) == TrimRight(TrimLeft(t))

\* stellarAddress.startsWith('G')
StartsWithG(t) == t # <<>> /\ Head(t) = "G"

\* !stellarAddress || typeof stellarAddress !== 'string'
AddressMissing(body) == body.type # "string" \/ body.text = <<>>

AddressFormatOkNoLength(t) == StartsWithG(t)
\* !(!stellarAddress.startsWith('G') || stellarAddress.length !== 56)
AddressFormatOk(t) == StartsWithG(t) /\ Len(t) = AddressLength

\* POST /api/wallet/verify-connection/:token for the authenticated user;
\* dbOk: prisma.user.update succeeds. Answers the status and the stored address.
VerifyConnection(user, token, body, dbOk, stored) ==
    IF AddressMissing(body) THEN [status |-> 400, address |-> stored]
    ELSE IF ~AddressFormatOk(body.text) THEN [status |-> 400, address |-> stored]
    ELSE IF ~dbOk THEN [status |-> 500, address |-> stored]
    ELSE [status |-> 200, address |-> body.text]

WalletInit ==
    /\ userStellarAddress = [u \in Users |-> NoAddress]
    /\ walletLast = Null
    /\ mwcMounted = FALSE
    /\ mwcToken = NULL
    /\ mwcAddress = <<>>
    /\ mwcError = NULL
    /\ mwcIsConnected = FALSE
    /\ mwcCall = Null

\* The verify-connection handler run for one request of the signed-in user
VerifyConnectionRequest(user, token, body, dbOk) ==
    LET r == VerifyConnection(user, token, body, dbOk, userStellarAddress[user])
    IN /\ userStellarAddress' = [userStellarAddress EXCEPT ![user] = r.address]
       /\ walletLast' = [user |-> user, body |-> body, status |-> r.status,
                         changed |-> r.address # userStellarAddress[user]]

\* A client posts to /api/wallet/verify-connection/:token
PostVerifyConnection ==
    /\ \E user \in Users, token \in Tokens, body \in AddrBodies, dbOk \in BOOLEAN :
         VerifyConnectionRequest(user, token, body, dbOk)
    /\ UNCHANGED <<mwcMounted, mwcToken, mwcAddress, mwcError, mwcIsConnected, mwcCall>>

\* MobileWalletConnect mounts with the token of its URL (or none); the effect
\* reports a link without token
MwcMount ==
    /\ ~mwcMounted
    /\ mwcMounted' = TRUE
    /\ \E t \in Tokens \cup {NULL} :
         /\ mwcToken' = t
         /\ mwcError' = IF t = NULL THEN "invalidConnectionLink" ELSE NULL
    /\ UNCHANGED <<userStellarAddress, walletLast, mwcAddress, mwcIsConnected, mwcCall>>

\* MobileWalletConnect: the address input onChange
MwcSetStellarAddress ==
    /\ mwcMounted /\ ~mwcIsConnected
    /\ \E t \in AddrTexts : mwcAddress' = t
    /\ UNCHANGED <<userStellarAddress, walletLast, mwcMounted, mwcToken, mwcError,
                   mwcIsConnected, mwcCall>>

MwcFormatOkNoLength(t) == StartsWithG(t)
\* MobileWalletConnect.handleConnect: the format rule applied to the input
MwcFormatOk(t) == StartsWithG(t) /\ Len(t) = AddressLength

\* MobileWalletConnect.handleConnect, the request it sends included; the page
\* belongs to the signed-in user
MwcHandleConnect ==
    /\ mwcMounted /\ ~mwcIsConnected
    /\ IF mwcToken = NULL
       THEN /\ mwcError' = "invalidToken"
            /\ UNCHANGED <<userStellarAddress, walletLast, mwcIsConnected, mwcCall>>
       ELSE IF mwcAddress = <<>> \/ Trim(mwcAddress) = <<>>
       THEN /\ mwcError' = "stellarAddressRequired"
            /\ UNCHANGED <<userStellarAddress, walletLast, mwcIsConnected, mwcCall>>
       ELSE IF ~MwcFormatOk(mwcAddress)
       THEN /\ mwcError' = "invalidStellarAddress"
            /\ UNCHANGED <<userStellarAddress, walletLast, mwcIsConnected, mwcCall>>
       ELSE \E user \in Users, dbOk \in BOOLEAN :
              LET body == [type |-> "string", text |-> Trim(mwcAddress)]
                  r == VerifyConnection(user, mwcToken, body, dbOk,
                                        userStellarAddress[user])
              IN /\ mwcCall' = [input |-> mwcAddress]
                 /\ userStellarAddress' =
                        [userStellarAddress EXCEPT ![user] = r.address]
                 /\ walletLast' = [user |-> user, body |-> body, status |-> r.status,
                                   changed |-> r.address # userStellarAddress[user]]
                 /\ mwcIsConnected' = (r.status = 200)
                 /\ mwcError' = IF r.status = 200 THEN NULL ELSE "connectionError"
    /\ UNCHANGED <<mwcMounted, mwcToken, mwcAddress>>

WalletNext ==
    \/ PostVerifyConnection
    \/ MwcMount
    \/ MwcSetStellarAddress
    \/ MwcHandleConnect

(***************************************************************************)
(* Stellar payment settlement                                              *)
(***************************************************************************)
VARIABLES now, trip, payment, ledger, req

payVars == <<now, trip, payment, ledger, req>>

Trips == {"t1", "t2"}
\* The trip whose settlement PaySpec and AutoPaySpec follow
PayTrips == {"t1"}
PaymentSeq == <<"p1", "p2">>       \* payment ids in the order they are given out
Payments == {PaymentSeq[i] : i \in 1..Len(PaymentSeq)}
Reqs == {"r1", "r2"}
Passenger == "u1"
DriverAddress == "GDRIVER"
OtherAddress == "GOTHER"

\* XLM amount of the trip's price (convertCLPToXLM), in whole lumens
XlmAmount == 100
NoAmount == 0
NoTime == -1

\* generateStellarPaymentQR(paymentData, expiresInMinutes = 30)
ExpiresInMinutesDefault == 30

\* Minutes between two observed instants of the clock
ClockStep == (2 * ExpiresInMinutesDefault) \div 3

\* Amounts a payment operation found on Horizon can carry
OpAmounts == {98, 99, 100, 101, 102, 200}

PaymentOp(to, amount) == [type |-> "payment", to |-> to, amount |-> amount]

\* Transactions recorded by the two Horizon networks before any payment of
\* this model is made
InitialLedger ==
    { [id |-> "txGood", network |-> "mainnet", successful |-> TRUE,
       operations |-> {PaymentOp(DriverAddress, XlmAmount)}],
      [id |-> "txGood2", network |-> "mainnet", successful |-> TRUE,
       operations |-> {PaymentOp(DriverAddress, XlmAmount)}],
      [id |-> "txOther", network |-> "mainnet", successful |-> TRUE,
       operations |-> {PaymentOp(OtherAddress, XlmAmount)}] }

\* Transaction ids a client can send; "" is a missing transactionId
TxIds == {"txGood", "txGood2", "txOther"}
TxInputs == TxIds \cup {""}

\* GET horizonUrl/transactions/:id as fetch sees it: the call throws, answers
\* a status that is not ok, or answers the transaction's JSON
HorizonGet(led, network, id, reachable) ==
    IF ~reachable
    THEN [fetch |-> "throws", successful |-> FALSE, operations |-> {}]
    ELSE IF \E tx \in led : tx.id = id /\ tx.network = network
    THEN LET tx == CHOOSE tx \in led : tx.id = id /\ tx.network = network
         IN [fetch |-> "ok", successful |-> tx.successful, operations |-> tx.operations]
    ELSE [fetch |-> "notok", successful |-> FALSE, operations |-> {}]

\* parseFloat(op.amount) >= parseFloat(expectedAmount) * 0.99
AmountMatches(amount, expectedAmount) == amount * 100 >= expectedAmount * 99

\* operations.find(op => op.type === 'payment' && op.to === expectedDestination && ...)
MatchingPaymentOperation(operations, expectedDestination, expectedAmount) ==
    {op \in operations : /\ op.type = "payment"
                         /\ op.to = expectedDestination
                         /\ AmountMatches(op.amount, expectedAmount)}

\* verifyStellarTransaction, given what the fetch of the transaction answered
VerifyStellarTransaction(response, expectedDestination, expectedAmount) ==
    IF response.fetch = "throws"
    THEN [verified |-> FALSE, error |-> "Error al verificar la transaccion"]
    ELSE IF response.fetch = "notok"
    THEN [verified |-> FALSE, error |-> "Error al verificar transaccion: statusText"]
    ELSE IF response.successful # TRUE
    THEN [verified |-> FALSE, error |-> "La transaccion no fue exitosa"]
    ELSE IF MatchingPaymentOperation(response.operations, expectedDestination,
                                     expectedAmount) = {}
    THEN [verified |-> FALSE, error |-> "No se encontro una operacion de pago que coincida"]
    ELSE [verified |-> TRUE, error |-> NULL]

\* horizonUrl: string = 'https://horizon.stellar.org', the network the payment
\* route looks a transaction up on (it passes no horizonUrl)
BackendHorizonNetwork == "mainnet"

\* A transaction that was not built (transactionXdr undefined)
NoXdr == [source |-> NULL, destination |-> NULL, amount |-> NoAmount, memo |-> NULL]

\* The account buildTransactionWithoutSource builds on (Keypair.random())
TempAccount == "GTEMP"

\* The payment transaction the SDK builds on an account, as its XDR
PaymentTransaction(paymentData, account) ==
    [source |-> account, destination |-> paymentData.destination,
     amount |-> paymentData.amount, memo |-> paymentData.memo]

BuildStellarTransactionLoadFails(paymentData, sourcePublicKey, loadOk) ==
    IF sourcePublicKey # NULL /\ ~loadOk
    THEN [thrown |-> TRUE, transactionXdr |-> NoXdr]
    ELSE IF ~paymentData.valid
    THEN [thrown |-> TRUE, transactionXdr |-> NoXdr]
    ELSE [thrown |-> FALSE,
          transactionXdr |->
              PaymentTransaction(paymentData,
                  IF sourcePublicKey # NULL THEN sourcePublicKey ELSE TempAccount)]
\* buildStellarTransaction(paymentData, sourcePublicKey): with a source
\* account, server.loadAccount (loadOk) and the builder run in a try block
\* whose catch builds without the source; the SDK's builder throws for
\* payment data it does not accept (valid), with or without the source
BuildStellarTransaction(paymentData, sourcePublicKey, loadOk) ==
    IF sourcePublicKey # NULL /\ loadOk /\ paymentData.valid
    THEN [thrown |-> FALSE,
          transactionXdr |-> PaymentTransaction(paymentData, sourcePublicKey)]
    ELSE IF paymentData.valid
    THEN [thrown |-> FALSE,
          transactionXdr |-> PaymentTransaction(paymentData, TempAccount)]
    ELSE [thrown |-> TRUE, transactionXdr |-> NoXdr]

Param(name, value) == [name |-> name, value |-> value]

\* The parameters of the web+stellar:pay URI, in the order they are added
PaymentUrlParams(paymentData, transactionXdr) ==
    <<Param("destination", paymentData.destination),
      Param("amount", paymentData.amount)>>
    \o (IF paymentData.memo # NULL THEN <<Param("memo", paymentData.memo)>> ELSE <<>>)
    \o (IF paymentData.asset # NULL /\ paymentData.asset # "XLM"
        THEN <<Param("asset_code", paymentData.asset)>>
             \o (IF paymentData.assetIssuer # NULL
                 THEN <<Param("asset_issuer", paymentData.assetIssuer)>> ELSE <<>>)
        ELSE <<>>)
    \o (IF transactionXdr # NoXdr THEN <<Param("xdr", transactionXdr)>> ELSE <<>>)

HasParam(params, name) == \E i \in 1..Len(params) : params[i].name = name

\* generateStellarPaymentQR(paymentData, expiresInMinutes) called at time:
\* the build in its try block, the URI, the QR image (QRCode.toDataURL
\* answers, qrOk, or throws)
StellarPaymentQR(paymentData, expiresInMinutes, time, qrOk) ==
    LET built == BuildStellarTransaction(paymentData, NULL, TRUE)
        transactionXdr == IF built.thrown THEN NoXdr ELSE built.transactionXdr
        paymentUrl == PaymentUrlParams(paymentData, transactionXdr)
    IN [thrown |-> ~qrOk,
        qrCode |-> qrOk,
        paymentUrl |-> IF qrOk THEN paymentUrl ELSE <<>>,
        paymentAddress |-> IF qrOk THEN paymentData.destination ELSE NULL,
        expiresAt |-> IF qrOk THEN time + expiresInMinutes ELSE NoTime,
        transactionXdr |-> IF qrOk THEN transactionXdr ELSE NoXdr]

\* The payment data completeTrip hands over: XLM to the driver, no memo;
\* buildOk: the SDK accepts them
TripPaymentData(payTo, amount, buildOk) ==
    [destination |-> payTo, amount |-> amount, memo |-> NULL, asset |-> NULL,
     assetIssuer |-> NULL, valid |-> buildOk]

\* generateStellarPaymentQR as completeTrip uses it: expiresAt, and the XDR
\* when the build succeeded
GenerateStellarPaymentQR(payTo, amount, expiresInMinutes, buildOk, time) ==
    LET r == StellarPaymentQR(TripPaymentData(payTo, amount, buildOk),
                              expiresInMinutes, time, TRUE)
    IN [qrCode |-> r.qrCode,
        paymentAddress |-> r.paymentAddress,
        expiresAt |-> r.expiresAt,
        hasXdr |-> r.transactionXdr # NoXdr,
        urlHasXdr |-> HasParam(r.paymentUrl, "xdr")]

NoTrip ==
    [status |-> "PENDING", completedAt |-> FALSE, paymentQrCode |-> FALSE,
     paymentAddress |-> NULL, paymentExpiresAt |-> NoTime,
     stellarTransactionId |-> NULL, hasXdr |-> FALSE, completedVia |-> NULL]

NoPayment ==
    [exists |-> FALSE, userId |-> NULL, tripId |-> NULL, method |-> NULL,
     status |-> NULL, transactionId |-> NULL, processedAt |-> NoTime,
     stellarAddress |-> NULL, xlmAmount |-> NoAmount]

\* A request of the verify route: where the handler stands (pc), what it
\* still needs of its inputs, its answer, whether every condition for a
\* change held when it looked (eligible) and whether it wrote (wrote)
IdleReq ==
    [pc |-> "idle", paymentId |-> NULL, transactionId |-> NULL,
     status |-> 0, message |-> NULL, tripId |-> NULL, eligible |-> FALSE,
     wrote |-> FALSE]

PayInit ==
    /\ now = 0
    /\ trip = [t \in Trips |-> NoTrip]
    /\ payment = [p \in Payments |-> NoPayment]
    /\ ledger = InitialLedger
    /\ req = [r \in Reqs |-> IdleReq]

\* The clock advances
Tick ==
    /\ now + ClockStep <= MaxTicks * ClockStep
    /\ now' = now + ClockStep
    /\ UNCHANGED <<trip, payment, ledger, req>>

\* A driver accepts the trip: PENDING -> CONFIRMED
ConfirmTrip(t) ==
    /\ trip[t].status = "PENDING"
    /\ trip' = [trip EXCEPT ![t].status = "CONFIRMED"]
    /\ UNCHANGED <<now, payment, ledger, req>>

\* The trip starts: CONFIRMED -> IN_PROGRESS
StartTrip(t) ==
    /\ trip[t].status = "CONFIRMED"
    /\ trip' = [trip EXCEPT ![t].status = "IN_PROGRESS"]
    /\ UNCHANGED <<now, payment, ledger, req>>

FreePayments == {p \in Payments : ~payment[p].exists}

\* The id the next created payment gets
NextPaymentId ==
    LET i == CHOOSE k \in 1..Len(PaymentSeq) :
                 /\ ~payment[PaymentSeq[k]].exists
                 /\ \A j \in 1..(k - 1) : payment[PaymentSeq[j]].exists
    IN PaymentSeq[i]

\* completeTrip of the driver service: completedAt is set, the payment QR is
\* generated and a pending Stellar payment is created; the status stays
\* IN_PROGRESS until the payment is verified
DriverCompleteTrip(t) ==
    /\ trip[t].status = "IN_PROGRESS"
    /\ ~trip[t].completedAt
    /\ FreePayments # {}
    /\ \E buildOk \in BOOLEAN :
         LET p == NextPaymentId
             qr == GenerateStellarPaymentQR(DriverAddress, XlmAmount,
                                            ExpiresInMinutesDefault, buildOk, now)
         IN /\ trip' = [trip EXCEPT ![t].completedAt = TRUE,
                                    ![t].paymentQrCode = qr.qrCode,
                                    ![t].paymentAddress = qr.paymentAddress,
                                    ![t].paymentExpiresAt = qr.expiresAt,
                                    ![t].hasXdr = qr.hasXdr]
            /\ payment' = [payment EXCEPT ![p] =
                    [exists |-> TRUE, userId |-> Passenger, tripId |-> t,
                     method |-> "STELLAR", status |-> "PENDING",
                     transactionId |-> NULL, processedAt |-> NoTime,
                     stellarAddress |-> DriverAddress, xlmAmount |-> XlmAmount]]
    /\ UNCHANGED <<now, ledger, req>>

\* A payment by another method is opened for the trip; it carries no Stellar
\* details
CreateOtherPayment(t) ==
    /\ trip[t].status = "IN_PROGRESS"
    /\ FreePayments # {}
    /\ \A q \in Payments : payment[q].exists => payment[q].method = "STELLAR"
    /\ LET p == NextPaymentId
       IN payment' = [payment EXCEPT ![p] =
                    [exists |-> TRUE, userId |-> Passenger, tripId |-> t,
                     method |-> "CASH", status |-> "PENDING",
                     transactionId |-> NULL, processedAt |-> NoTime,
                     stellarAddress |-> NULL, xlmAmount |-> NoAmount]]
    /\ UNCHANGED <<now, trip, ledger, req>>

\* api.cancelTrip: the trip becomes CANCELLED and its pending payments are
\* cancelled (CancelTripDialog: "se cancelaran los pagos pendientes")
CancelTrip(t) ==
    /\ trip[t].status \in {"PENDING", "CONFIRMED", "IN_PROGRESS"}
    /\ trip' = [trip EXCEPT ![t].status = "CANCELLED"]
    /\ payment' = [p \in Payments |->
                     IF payment[p].exists /\ payment[p].tripId = t
                        /\ payment[p].status = "PENDING"
                     THEN [payment[p] EXCEPT !.status = "CANCELLED"]
                     ELSE payment[p]]
    /\ UNCHANGED <<now, ledger, req>>

\* Ids a client can put in the URL; "pX" names no payment
PaymentIdInputs == Payments \cup {"pX"}
Callers == {NULL, "u1", "u2"}

\* paymentDetails?.stellarAddress || payment.trip?.driver?.stellarAddress
StellarAddressOf(pay) ==
    IF pay.stellarAddress # NULL THEN pay.stellarAddress ELSE DriverAddress

BelongsToAnyCaller(pay, caller) == TRUE
\* payment.userId !== userId is answered with 403
BelongsToCaller(pay, caller) == pay.userId = caller

VerificationIgnored(verification) == TRUE
\* !verification.verified is answered with 400
VerificationPasses(verification) == verification.verified

Respond(r, code, msg) ==
    [req[r] EXCEPT !.pc = "done", !.status = code, !.message = msg]

\* The conditions under which the verify route changes a payment: the caller
\* is authenticated, a transactionId is supplied, the payment exists, belongs
\* to the caller and is PENDING, the Stellar address and amount are known and
\* verifyStellarTransaction answers verified
ConditionsHold(caller, paymentId, transactionId, reachable) ==
    /\ caller # NULL
    /\ transactionId # ""
    /\ paymentId \in Payments
    /\ payment[paymentId].exists
    /\ payment[paymentId].userId = caller
    /\ payment[paymentId].status = "PENDING"
    /\ StellarAddressOf(payment[paymentId]) # NULL
    /\ payment[paymentId].xlmAmount # NoAmount
    /\ VerifyStellarTransaction(
          HorizonGet(ledger, BackendHorizonNetwork, transactionId, reachable),
          StellarAddressOf(payment[paymentId]),
          payment[paymentId].xlmAmount).verified

\* POST /api/payments/:paymentId/verify up to the verification of the
\* transaction: the checks, the lookup of the payment (dbOk: it does not
\* throw) and verifyStellarTransaction (reachable: the fetch does not throw).
\* The value is the request after these steps: answered, or about to update.
VerifyBegin(caller, paymentId, transactionId, dbOk, reachable) ==
    LET started == [IdleReq EXCEPT !.eligible =
                        ConditionsHold(caller, paymentId, transactionId, reachable)]
        found == paymentId \in Payments /\ payment[paymentId].exists
        pay == payment[paymentId]
        answer(code, msg) == [started EXCEPT !.pc = "done", !.status = code,
                                            !.message = msg]
    IN
    IF caller = NULL THEN answer(401, "Usuario no autenticado")
    ELSE IF transactionId = "" THEN answer(400, "transactionId es requerido")
    ELSE IF ~dbOk THEN answer(500, "error.message")
    ELSE IF ~found THEN answer(404, "Pago no encontrado")
    ELSE IF ~BelongsToCaller(pay, caller)
    THEN answer(403, "No tienes permiso para verificar este pago")
    ELSE IF pay.status # "PENDING" THEN answer(400, "El pago ya esta status")
    ELSE IF StellarAddressOf(pay) = NULL \/ pay.xlmAmount = NoAmount
    THEN answer(400, "Informacion de pago Stellar incompleta")
    ELSE LET response == HorizonGet(ledger, BackendHorizonNetwork,
                                    transactionId, reachable)
             verification == VerifyStellarTransaction(response,
                                 StellarAddressOf(pay), pay.xlmAmount)
         IN IF ~VerificationPasses(verification)
            THEN answer(400, verification.error)
            ELSE [started EXCEPT !.pc = "updatePayment",
                                 !.paymentId = paymentId,
                                 !.transactionId = transactionId,
                                 !.tripId = pay.tripId]

\* A client posts to /api/payments/:paymentId/verify
PostVerify(r) ==
    /\ req[r].pc \in {"idle", "done"}
    /\ \E after \in {VerifyBegin(caller, paymentId, transactionId, dbOk, reachable) :
                        caller \in Callers, paymentId \in PaymentIdInputs,
                        transactionId \in TxInputs, dbOk \in BOOLEAN,
                        reachable \in BOOLEAN} :
         req' = [req EXCEPT ![r] = after]
    /\ UNCHANGED <<now, trip, payment, ledger>>

\* prisma.payment.update: status COMPLETED, transactionId, processedAt
VerifyUpdatePayment(r) ==
    /\ req[r].pc = "updatePayment"
    /\ \E dbOk \in BOOLEAN :
         IF ~dbOk
         THEN /\ req' = [req EXCEPT ![r] = Respond(r, 500, "error.message")]
              /\ UNCHANGED payment
         ELSE /\ payment' = [payment EXCEPT ![req[r].paymentId] =
                     [@ EXCEPT !.status = "COMPLETED",
                               !.transactionId = req[r].transactionId,
                               !.processedAt = now]]
              /\ req' = [req EXCEPT ![r] =
                     IF req[r].tripId # NULL
                     THEN [req[r] EXCEPT !.pc = "updateTrip", !.wrote = TRUE]
                     ELSE [Respond(r, 200, "Pago verificado") EXCEPT !.wrote = TRUE]]
    /\ UNCHANGED <<now, trip, ledger>>

\* prisma.trip.update: status COMPLETED, stellarTransactionId; then the answer
VerifyUpdateTrip(r) ==
    /\ req[r].pc = "updateTrip"
    /\ \E dbOk \in BOOLEAN :
         IF ~dbOk
         THEN /\ req' = [req EXCEPT ![r] = Respond(r, 500, "error.message")]
              /\ UNCHANGED trip
         ELSE /\ trip' = [trip EXCEPT ![req[r].tripId] =
                     [@ EXCEPT !.status = "COMPLETED",
                               !.stellarTransactionId = req[r].transactionId,
                               !.completedVia = req[r].paymentId]]
              /\ req' = [req EXCEPT ![r] = Respond(r, 200, "Pago verificado")]
    /\ UNCHANGED <<now, payment, ledger>>

PayNext ==
    \/ Tick
    \/ \E t \in PayTrips : ConfirmTrip(t)
    \/ \E t \in PayTrips : StartTrip(t)
    \/ \E t \in PayTrips : DriverCompleteTrip(t)
    \/ \E t \in PayTrips : CreateOtherPayment(t)
    \/ \E t \in PayTrips : CancelTrip(t)
    \/ \E r \in Reqs : PostVerify(r)
    \/ \E r \in Reqs : VerifyUpdatePayment(r)
    \/ \E r \in Reqs : VerifyUpdateTrip(r)

\* The settlement of two trips of the same passenger with the same driver
\* and the same price, one verify request at a time
ReuseReq == "r1"

ReuseNext ==
    \/ \E t \in Trips : ConfirmTrip(t)
    \/ \E t \in Trips : StartTrip(t)
    \/ \E t \in Trips : DriverCompleteTrip(t)
    \/ PostVerify(ReuseReq)
    \/ VerifyUpdatePayment(ReuseReq)
    \/ VerifyUpdateTrip(ReuseReq)

(***************************************************************************)
(* verifyStellarTransaction called on its own                              *)
(* (backend/src/services/stellarService.ts)                                *)
(***************************************************************************)

\* hz: the last call of verifyStellarTransaction, what Horizon answered to
\* its fetch and what the call returned
VARIABLES hz

horizonVars == <<hz>>

OpTypes == {"payment", "create_account"}
Destinations == {DriverAddress, OtherAddress}

\* Operations a transaction of Horizon can carry
Operations ==
    [type : OpTypes, to : Destinations, amount : OpAmounts]

\* The operations arrays of the transactions looked up: up to MaxOps entries
OperationSets == {ops \in SUBSET Operations : Cardinality(ops) <= MaxOps}

FetchOutcomes == {"throws", "notok", "ok"}

HorizonInit ==
    hz = [called |-> FALSE,
          response |-> [fetch |-> "throws", successful |-> FALSE, operations |-> {}],
          expectedDestination |-> DriverAddress,
          expectedAmount |-> XlmAmount,
          result |-> [verified |-> FALSE, error |-> NULL]]

\* verifyStellarTransaction(transactionId, expectedDestination, expectedAmount)
\* is called and Horizon answers response
VerifyTransactionCall ==
    /\ ~hz.called
    /\ \E fetch \in FetchOutcomes, successful \in BOOLEAN,
       operations \in OperationSets, expectedDestination \in Destinations :
        LET response == [fetch |-> fetch,
                         successful |-> (fetch = "ok" /\ successful),
                         operations |-> IF fetch = "ok" THEN operations ELSE {}]
        IN hz' = [called |-> TRUE,
                  response |-> response,
                  expectedDestination |-> expectedDestination,
                  expectedAmount |-> XlmAmount,
                  result |-> VerifyStellarTransaction(response, expectedDestination,
                                                      XlmAmount)]

HorizonNext == VerifyTransactionCall

(***************************************************************************)
(* AutoPayButton (handlePay) with freighterService (getNetwork,            *)
(* signAndSubmitTransaction), on the TripDetails page                      *)
(***************************************************************************)

\* ap: the passenger's TripDetails page with its pay button: where handlePay
\* stands (pc), the trip the page loaded (pageTrip), whether the payment info
\* request was made and answered (infoRequest), the paymentInfo state
\* (hasPaymentInfo, paymentId, hasXdr), the network Freighter
\* reported, the Horizon the transaction was submitted to and its hash, the
\* component's connectionStatus, isPaying, isPaid and error state, what the
\* current run of handlePay has passed (signed, verified) and how it ended,
\* and how often signAndSubmitTransaction returned success for the trip
VARIABLES ap

autoPayVars == <<ap>>

\* The request slot the page's call of the verify route uses
ApReq == "r1"

\* What Freighter's getNetwork reports, lowercased by getNetwork
FreighterNetworks == {"testnet", "public"}

\* network === 'testnet' ? 'https://horizon-testnet.stellar.org'
\*                        : 'https://horizon.stellar.org'
SubmitHorizonAlwaysMainnet(network) == "mainnet"
SubmitHorizon(network) == IF network = "testnet" THEN "testnet" ELSE "mainnet"

\* The hash of the transaction the button submits
PayTxId == "txPay"

\* The trip state of a page that has loaded no trip
NoPageTrip == [completedAt |-> FALSE, paymentQrCode |-> FALSE, status |-> NULL]

ApIdle ==
    [pc |-> "unloaded", pageTrip |-> NoPageTrip, infoRequest |-> "none",
     hasPaymentInfo |-> FALSE, paymentId |-> NULL, hasXdr |-> FALSE,
     network |-> NULL, submitNetwork |-> NULL, transactionId |-> NULL,
     isPaid |-> FALSE, error |-> NULL, connection |-> "unknown",
     isPaying |-> FALSE, signed |-> FALSE, verified |-> FALSE,
     ended |-> "none", submitted |-> 0]

AutoPayInit == ap = ApIdle

\* GET /api/payments/trip/:tripId: the pending STELLAR payments of the trip,
\* the most recently created first
PendingStellarPayments(t) ==
    {p \in Payments : /\ payment[p].exists
                       /\ payment[p].tripId = t
                       /\ payment[p].method = "STELLAR"
                       /\ payment[p].status = "PENDING"}

LatestPayment(ps) ==
    PaymentSeq[CHOOSE k \in 1..Len(PaymentSeq) :
                   /\ PaymentSeq[k] \in ps
                   /\ \A j \in (k + 1)..Len(PaymentSeq) : PaymentSeq[j] \notin ps]

\* What api.getTripPaymentInfo can do: answer, or throw (a 404, a 500, the
\* network)
InfoOutcomes == {"ok", "failed"}

\* loadTrip: setTrip(data); paymentInfo is requested when the trip has
\* completedAt and a paymentQrCode, and is null when it is not requested or
\* the request throws. While loading, the page renders a spinner, so a
\* reload mounts a new AutoPayButton
ApLoadTrip(t) ==
    /\ ap.pc \in {"unloaded", "ready", "paid"}
    /\ \E outcome \in InfoOutcomes :
         LET requested == trip[t].completedAt /\ trip[t].paymentQrCode
             answered == requested /\ outcome = "ok"
         IN ap' = [ApIdle EXCEPT
                     !.pc = "ready",
                     !.pageTrip = [completedAt |-> trip[t].completedAt,
                                   paymentQrCode |-> trip[t].paymentQrCode,
                                   status |-> trip[t].status],
                     !.infoRequest = IF requested THEN outcome ELSE "none",
                     !.hasPaymentInfo = answered,
                     !.paymentId = IF ~answered THEN NULL
                                   ELSE IF PendingStellarPayments(t) # {}
                                   THEN LatestPayment(PendingStellarPayments(t))
                                   ELSE "pending",
                     !.hasXdr = answered /\ trip[t].hasXdr,
                     !.submitted = ap.submitted]
    /\ UNCHANGED payVars

\* The render condition of the payment component:
\* trip.completedAt && trip.paymentQrCode && trip.status !== 'COMPLETED'
\*     && paymentInfo
PaymentComponentShownWhileCompleted ==
    /\ ap.pageTrip.completedAt /\ ap.pageTrip.paymentQrCode
    /\ ap.hasPaymentInfo
PaymentComponentShown ==
    /\ ap.pageTrip.completedAt /\ ap.pageTrip.paymentQrCode
    /\ ap.pageTrip.status # "COMPLETED"
    /\ ap.hasPaymentInfo

\* The actions row of the page: 'Cancelar Viaje' is rendered for a trip whose
\* status is PENDING, CONFIRMED or IN_PROGRESS
CancelActionOffered ==
    /\ ap.pc # "unloaded"
    /\ ap.pageTrip.status \in {"PENDING", "CONFIRMED", "IN_PROGRESS"}

\* getFreighterConnectionStatus as checkConnection stores it: Freighter is
\* not installed, installed and not connected, or connected
ConnectionStatuses == {"unavailable", "disconnected", "connected"}

\* checkConnection, run by the mount effect and by handleConnect
ApCheckConnection ==
    /\ ap.pc = "ready"
    /\ PaymentComponentShown
    /\ \E status \in ConnectionStatuses : ap' = [ap EXCEPT !.connection = status]
    /\ UNCHANGED payVars

\* The pay button is rendered when Freighter is available and is enabled
\* unless isPaying || !transactionXdr || (connectionStatus && !isConnected)
PayButtonEnabled ==
    /\ PaymentComponentShown /\ ~ap.isPaid
    /\ ap.connection = "connected"
    /\ ap.hasXdr
    /\ ~ap.isPaying

\* handlePay ends in its catch: setError, toast.error, finally
\* setIsPaying(false)
ApFailed(message) ==
    [ap EXCEPT !.pc = "ready", !.error = message, !.isPaying = FALSE,
               !.ended = "failed"]

\* handlePay up to the first await of its try block
ApHandlePay ==
    /\ ap.pc = "ready"
    /\ PayButtonEnabled
    /\ ap.submitted < MaxSubmits
    /\ ap' = IF ap.connection # "connected"
             THEN ap
             ELSE IF ~ap.hasXdr
             THEN [ap EXCEPT !.error = "Transaccion no disponible"]
             ELSE [ap EXCEPT !.pc = "getNetwork", !.error = NULL,
                             !.isPaying = TRUE, !.signed = FALSE,
                             !.verified = FALSE, !.ended = "none"]
    /\ UNCHANGED payVars

\* await getNetwork()
ApGetNetwork ==
    /\ ap.pc = "getNetwork"
    /\ \/ ap' = ApFailed("Error al obtener la red")
       \/ \E network \in FreighterNetworks :
            ap' = [ap EXCEPT !.pc = "submit", !.network = network]
    /\ UNCHANGED payVars

\* What Horizon holds of the button's transaction on a network
SubmittedBefore(network) ==
    {tx \in ledger : tx.id = PayTxId /\ tx.network = network}

\* await signAndSubmitTransaction(transactionXdr, network): Freighter signs,
\* the transaction is posted to the Horizon of the network and Horizon
\* records it (successful or not) or answers what it recorded of the same
\* transaction before, or the call throws
ApSignAndSubmit ==
    /\ ap.pc = "submit"
    /\ \/ /\ ap' = ApFailed("Error al procesar la transaccion")
          /\ UNCHANGED ledger
       \/ \E successful \in
              IF SubmittedBefore(SubmitHorizon(ap.network)) = {}
              THEN BOOLEAN
              ELSE {tx.successful : tx \in SubmittedBefore(SubmitHorizon(ap.network))} :
            /\ ledger' = ledger \cup
                   { [id |-> PayTxId, network |-> SubmitHorizon(ap.network),
                      successful |-> successful,
                      operations |-> {PaymentOp(DriverAddress, XlmAmount)}] }
            /\ ap' = IF successful
                     THEN [ap EXCEPT !.pc = "verify",
                                     !.submitNetwork = SubmitHorizon(ap.network),
                                     !.transactionId = PayTxId,
                                     !.signed = TRUE,
                                     !.submitted = ap.submitted + 1]
                     ELSE [ApFailed("La transaccion no fue exitosa") EXCEPT
                                     !.submitNetwork = SubmitHorizon(ap.network)]
    /\ UNCHANGED <<now, trip, payment, req>>

\* api.verifyStellarPayment(paymentId, result.transactionId) reaches the
\* verify route as the passenger's request
ApPostVerify ==
    /\ ap.pc = "verify"
    /\ req[ApReq].pc \in {"idle", "done"}
    /\ \E after \in {VerifyBegin(Passenger, ap.paymentId, ap.transactionId,
                                  dbOk, reachable) :
                        dbOk \in BOOLEAN, reachable \in BOOLEAN} :
         req' = [req EXCEPT ![ApReq] = after]
    /\ ap' = [ap EXCEPT !.pc = "awaiting"]
    /\ UNCHANGED <<now, trip, payment, ledger>>

VerifiedAnswerAny(status) == TRUE
\* verification.verified: the route answers verified: true with its 200
\* only; any other answer makes the api client throw
VerifiedAnswer(status) == status = 200

\* The answer of the verify route comes back: isPaid, or the error
ApVerificationReturns ==
    /\ ap.pc = "awaiting"
    /\ req[ApReq].pc = "done"
    /\ ap' = IF VerifiedAnswer(req[ApReq].status)
             THEN [ap EXCEPT !.pc = "paid", !.isPaid = TRUE, !.verified = TRUE,
                             !.isPaying = FALSE, !.ended = "paid"]
             ELSE ApFailed(req[ApReq].message)
    /\ UNCHANGED payVars

AutoPayNext ==
    \/ Tick /\ UNCHANGED ap
    \/ \E t \in PayTrips : ConfirmTrip(t) /\ UNCHANGED ap
    \/ \E t \in PayTrips : StartTrip(t) /\ UNCHANGED ap
    \/ \E t \in PayTrips : DriverCompleteTrip(t) /\ UNCHANGED ap
    \/ \E t \in PayTrips : ApLoadTrip(t)
    \/ ApCheckConnection
    \/ ApHandlePay
    \/ ApGetNetwork
    \/ ApSignAndSubmit
    \/ ApPostVerify
    \/ VerifyUpdatePayment(ApReq) /\ UNCHANGED ap
    \/ VerifyUpdateTrip(ApReq) /\ UNCHANGED ap
    \/ ApVerificationReturns

(***************************************************************************)
(* Connection tokens of the mobile wallet link                             *)
(* (backend/src/routes/walletRoutes.ts)                                    *)
(***************************************************************************)

\* issued: what POST /generate-connection-qr has answered so far, per token
\* (the route keeps no record of its own); tokenLast: the :token and the time
\* of the last verify-connection request
VARIABLES issued, tokenLast

tokenVars == <<issued, tokenLast>>

\* expiresAt.setMinutes(expiresAt.getMinutes() + 10)
TokenValidMinutes == 10

NotIssued == [user |-> NULL, at |-> NoTime, expiresAt |-> NoTime]

TokenInit ==
    /\ issued = [k \in Tokens |-> NotIssued]
    /\ tokenLast = [token |-> NULL, at |-> NoTime]

\* POST /api/wallet/generate-connection-qr: crypto.randomBytes(32) gives a
\* token not issued before; the answer carries it with expiresAt
GenerateConnectionQr ==
    /\ \E user \in Users, token \in {k \in Tokens : issued[k].user = NULL} :
         issued' = [issued EXCEPT ![token] =
                       [user |-> user, at |-> now,
                        expiresAt |-> now + TokenValidMinutes]]
    /\ UNCHANGED <<tokenLast, walletVars, payVars>>

\* Bodies sent with a connection link: a valid address, another one, and
\* one that is too short
TokenBodies == {[type |-> "string", text |-> t] : t \in {AddrG1, AddrG2, AddrShort}}

\* A client posts to /api/wallet/verify-connection/:token at the time now
TokenVerifyConnection ==
    /\ \E user \in Users, token \in Tokens, body \in TokenBodies, dbOk \in BOOLEAN :
         /\ VerifyConnectionRequest(user, token, body, dbOk)
         /\ tokenLast' = [token |-> token, at |-> now]
    /\ UNCHANGED <<issued, mwcMounted, mwcToken, mwcAddress, mwcError,
                   mwcIsConnected, mwcCall, payVars>>

TokenNext ==
    \/ Tick /\ UNCHANGED <<tokenVars, walletVars>>
    \/ GenerateConnectionQr
    \/ TokenVerifyConnection

(***************************************************************************)
(* Wallet status shown by Settings and UserMenu                            *)
(* (frontend/src/pages/Settings.tsx, UserMenu in ConnectWalletModal.tsx)   *)
(***************************************************************************)

\* profileAddress: user.stellarAddress of the auth context ("" when absent);
\* freighterStatus: the state of Settings; walletStatus: the state of
\* UserMenu; pendingChecks: per component and per stellarAddress captured by
\* the closure, the status checks awaiting getFreighterConnectionStatus;
\* walletOp: the connect / disconnect handler each component is awaiting
VARIABLES profileAddress, freighterStatus, walletStatus, pendingChecks, walletOp

statusVars == <<profileAddress, freighterStatus, walletStatus, pendingChecks, walletOp>>

\* The public key of the Freighter account
FreighterKey == "GKEY"
ProfileAddresses == {"", FreighterKey}

\* What getFreighterConnectionStatus can answer (it never throws)
FreighterAnswers ==
    { [isAvailable |-> FALSE, isConnected |-> FALSE, publicKey |-> NULL],
      [isAvailable |-> TRUE, isConnected |-> FALSE, publicKey |-> NULL],
      [isAvailable |-> TRUE, isConnected |-> TRUE, publicKey |-> FreighterKey] }

Shown(isAvailable, isConnected, publicKey) ==
    [isAvailable |-> isAvailable, isConnected |-> isConnected, publicKey |-> publicKey]

NoChecks == [a \in ProfileAddresses |-> 0]

PendingTotal(component) ==
    pendingChecks[component][""] + pendingChecks[component][FreighterKey]

\* k more checks whose closure captured address a
StartChecks(checks, a, k) == [checks EXCEPT ![a] = @ + k]

\* Both components are mounted for a user without stellarAddress: the two
\* effects of Settings and the effect of UserMenu have each started a check
StatusInit ==
    /\ profileAddress = ""
    /\ freighterStatus = Shown(FALSE, FALSE, NULL)
    /\ walletStatus = Shown(FALSE, FALSE, NULL)
    /\ pendingChecks = [settings |-> StartChecks(NoChecks, "", 2),
                        menu |-> StartChecks(NoChecks, "", 1)]
    /\ walletOp = [settings |-> "idle", menu |-> "idle"]

\* The checks the effects of Settings start after setUser(updatedUser): the
\* effect on [user] always, the effect on [user?.stellarAddress] when the
\* address changed
SettingsChecksStarted(newAddress) ==
    IF newAddress # profileAddress THEN 2 ELSE 1

\* The effect of UserMenu on [checkWalletStatus, user?.stellarAddress] starts
\* a check only when the address changed to none
MenuChecksStarted(newAddress) ==
    IF newAddress # profileAddress /\ newAddress = "" THEN 1 ELSE 0

\* setUser(updatedUser) reaches both components: the checks their effects
\* start, with the address the new closures capture
ChecksAfterSetUser(newAddress) ==
    [settings |-> StartChecks(pendingChecks.settings, newAddress,
                              SettingsChecksStarted(newAddress)),
     menu |-> StartChecks(pendingChecks.menu, newAddress,
                          MenuChecksStarted(newAddress))]

RoomForChecks(newAddress) ==
    /\ PendingTotal("settings") + SettingsChecksStarted(newAddress) <= MaxPending
    /\ PendingTotal("menu") + MenuChecksStarted(newAddress) <= MaxPending

\* Settings.checkFreighterStatus / UserMenu.checkWalletStatus after the
\* await: the status to show, from the answer and the captured address
MergedStatus(answer, captured) ==
    IF captured = ""
    THEN Shown(answer.isAvailable, FALSE, NULL)
    ELSE IF answer.isConnected /\ answer.publicKey = captured
    THEN answer
    ELSE Shown(answer.isAvailable, TRUE, captured)

\* A pending check of Settings gets its answer
SettingsCheckCompletes ==
    /\ \E captured \in ProfileAddresses, answer \in FreighterAnswers :
         /\ pendingChecks.settings[captured] > 0
         /\ freighterStatus' = MergedStatus(answer, captured)
         /\ pendingChecks' = [pendingChecks EXCEPT !.settings[captured] = @ - 1]
    /\ UNCHANGED <<profileAddress, walletStatus, walletOp>>

\* A pending check of UserMenu gets its answer
MenuCheckCompletes ==
    /\ \E captured \in ProfileAddresses, answer \in FreighterAnswers :
         /\ pendingChecks.menu[captured] > 0
         /\ walletStatus' = MergedStatus(answer, captured)
         /\ pendingChecks' = [pendingChecks EXCEPT !.menu[captured] = @ - 1]
    /\ UNCHANGED <<profileAddress, freighterStatus, walletOp>>

\* UserMenu: the window gets the focus while the user has no stellarAddress
MenuFocus ==
    /\ profileAddress = ""
    /\ PendingTotal("menu") < MaxPending
    /\ pendingChecks' = [pendingChecks EXCEPT !.menu[""] = @ + 1]
    /\ UNCHANGED <<profileAddress, freighterStatus, walletStatus, walletOp>>

\* handleConnectFreighter / handleDisconnectFreighter / handleDisconnectWallet
\* up to their await
WalletOpBegins ==
    /\ \E component \in {"settings", "menu"},
          op \in {"connecting", "disconnecting"} :
         /\ walletOp[component] = "idle"
         /\ component = "menu" => op = "disconnecting"
         /\ walletOp' = [walletOp EXCEPT ![component] = op]
    /\ UNCHANGED <<profileAddress, freighterStatus, walletStatus, pendingChecks>>

\* handleConnectFreighter after connectFreighter and api.updateProfile: the
\* profile gets the key and Settings shows it; or one of the two throws
SettingsConnectReturns ==
    /\ walletOp.settings = "connecting"
    /\ walletOp' = [walletOp EXCEPT !.settings = "idle"]
    /\ \/ UNCHANGED <<profileAddress, freighterStatus, walletStatus, pendingChecks>>
       \/ /\ RoomForChecks(FreighterKey)
          /\ profileAddress' = FreighterKey
          /\ freighterStatus' = Shown(TRUE, TRUE, FreighterKey)
          /\ walletStatus' = IF profileAddress # FreighterKey
                             THEN Shown(TRUE, TRUE, FreighterKey)
                             ELSE walletStatus
          /\ pendingChecks' = ChecksAfterSetUser(FreighterKey)

\* handleDisconnectFreighter after api.updateProfile({ stellarAddress: '' })
SettingsDisconnectReturns ==
    /\ walletOp.settings = "disconnecting"
    /\ walletOp' = [walletOp EXCEPT !.settings = "idle"]
    /\ \/ UNCHANGED <<profileAddress, freighterStatus, walletStatus, pendingChecks>>
       \/ /\ RoomForChecks("")
          /\ profileAddress' = ""
          /\ freighterStatus' = Shown(TRUE, FALSE, NULL)
          /\ pendingChecks' = ChecksAfterSetUser("")
          /\ UNCHANGED walletStatus

\* UserMenu.handleDisconnectWallet after api.updateProfile({ stellarAddress: '' })
MenuDisconnectReturns ==
    /\ walletOp.menu = "disconnecting"
    /\ walletOp' = [walletOp EXCEPT !.menu = "idle"]
    /\ \/ UNCHANGED <<profileAddress, freighterStatus, walletStatus, pendingChecks>>
       \/ /\ RoomForChecks("")
          /\ profileAddress' = ""
          /\ walletStatus' = Shown(TRUE, FALSE, NULL)
          /\ pendingChecks' = ChecksAfterSetUser("")
          /\ UNCHANGED freighterStatus

StatusNext ==
    \/ SettingsCheckCompletes
    \/ MenuCheckCompletes
    \/ MenuFocus
    \/ WalletOpBegins
    \/ SettingsConnectReturns
    \/ SettingsDisconnectReturns
    \/ MenuDisconnectReturns

(***************************************************************************)
(* connectFreighter (freighterService)                                     *)
(***************************************************************************)

\* cf: one call of connectFreighter: where it stands (pc), the calls of the
\* Freighter API it has made (calls) and what each answered (answers), the
\* position in calls of the first
\* requestAccess the user rejected (rejectedAt, 0 for none), and its
\* outcome: the message of the error it threw (error) or that it returned
\* a public key (connected)
VARIABLES cf

connectVars == <<cf>>

\* Texts are sequences of characters, so that toLowerCase and includes are
\* computed and not assumed
\* throw new Error('Conexion cancelada por el usuario') (the accent is left out)
MsgCancelled ==
    <<"C","o","n","e","x","i","o","n"," ","c","a","n","c","e","l","a","d",
      "a"," ","p","o","r"," ","e","l"," ","u","s","u","a","r","i","o">>
\* the error thrown when no public key was obtained
MsgNoPublicKey ==
    <<"N","o"," ","s","e"," ","p","u","d","o"," ","o","b","t","e","n","e",
      "r"," ","l","a"," ","c","l","a","v","e"," ","p","u","b","l","i","c",
      "a"," ","d","e"," ","F","r","e","i","g","h","t","e","r","."," ","A",
      "s","e","g","u","r","a","t","e"," ","d","e"," ","q","u","e"," ","t",
      "u"," ","c","u","e","n","t","a"," ","d","e"," ","F","r","e","i","g",
      "h","t","e","r"," ","t","e","n","g","a"," ","u","n","a"," ","d","i",
      "r","e","c","c","i","o","n"," ","c","o","n","f","i","g","u","r","a",
      "d","a",".">>
\* the error the outer catch throws for a missing extension
MsgNotInstalled ==
    <<"F","r","e","i","g","h","t","e","r"," ","W","a","l","l","e","t"," ",
      "n","o"," ","e","s","t","a"," ","i","n","s","t","a","l","a","d","a",
      "."," ","P","o","r"," ","f","a","v","o","r",","," ","i","n","s","t",
      "a","l","a"," ","l","a"," ","e","x","t","e","n","s","i","o","n"," ",
      "d","e"," ","F","r","e","i","g","h","t","e","r"," ","d","e","s","d",
      "e"," ","h","t","t","p","s",":","/","/","f","r","e","i","g","h","t",
      "e","r",".","a","p","p","/">>
\* messages Freighter can answer or throw with
MsgUserRejected ==
    <<"U","s","e","r"," ","r","e","j","e","c","t","e","d"," ","t","h","e",
      " ","r","e","q","u","e","s","t">>
MsgUserCancelled ==
    <<"T","h","e"," ","u","s","e","r"," ","c","a","n","c","e","l","l","e",
      "d">>
MsgRejected ==
    <<"R","e","q","u","e","s","t"," ","R","e","j","e","c","t","e","d">>
MsgCancelado ==
    <<"A","c","c","e","s","o"," ","c","a","n","c","e","l","a","d","o">>
MsgTimeout ==
    <<"T","i","m","e","o","u","t">>
MsgMissing ==
    <<"F","r","e","i","g","h","t","e","r"," ","i","s"," ","n","o","t"," ",
      "i","n","s","t","a","l","l","e","d">>

\* The substrings the catch blocks look for, for a rejection by the user
KwUserRejected ==
    <<"u","s","e","r"," ","r","e","j","e","c","t","e","d">>
KwUserCancelled ==
    <<"u","s","e","r"," ","c","a","n","c","e","l","l","e","d">>
KwRejected ==
    <<"r","e","j","e","c","t","e","d">>
KwCancelado ==
    <<"c","a","n","c","e","l","a","d","o">>

\* ... and for a missing extension
KwNotInstalled ==
    <<"n","o","t"," ","i","n","s","t","a","l","l","e","d">>
KwNotDetected ==
    <<"e","x","t","e","n","s","i","o","n"," ","n","o","t"," ","d","e","t",
      "e","c","t","e","d">>
KwNoInstalada ==
    <<"n","o"," ","e","s","t","a"," ","i","n","s","t","a","l","a","d","a">>
KwWalletNoInstalada ==
    <<"f","r","e","i","g","h","t","e","r"," ","w","a","l","l","e","t"," ",
      "n","o"," ","e","s","t","a"," ","i","n","s","t","a","l","a","d","a">>
KwIsNotInstalled ==
    <<"f","r","e","i","g","h","t","e","r"," ","i","s"," ","n","o","t"," ",
      "i","n","s","t","a","l","l","e","d">>
KwNoConnection ==
    <<"c","o","u","l","d"," ","n","o","t"," ","e","s","t","a","b","l","i",
      "s","h"," ","c","o","n","n","e","c","t","i","o","n">>

\* String.prototype.toLowerCase on the characters that occur
LowerChar(c) ==
    CASE c = "A" -> "a"
      [] c = "C" -> "c"
      [] c = "F" -> "f"
      [] c = "N" -> "n"
      [] c = "P" -> "p"
      [] c = "R" -> "r"
      [] c = "T" -> "t"
      [] c = "U" -> "u"
      [] c = "W" -> "w"
      [] OTHER -> c
ToLowerCase(text) == [i \in 1..Len(text) |-> LowerChar(text[i])]

\* String.prototype.includes
Includes(text, part) ==
    \E i \in 0..(Len(text) - Len(part)) : SubSeq(text, i + 1, i + Len(part)) = part

\* errorMessage.includes('user rejected') || ... || errorMessage.includes('cancelado')
IsRejection(errorMessage) ==
    \/ Includes(errorMessage, KwUserRejected)
    \/ Includes(errorMessage, KwUserCancelled)
    \/ Includes(errorMessage, KwRejected)
    \/ Includes(errorMessage, KwCancelado)

\* errorMessage.includes('not installed') || ... of the outer catch
IsNotInstalled(errorMessage) ==
    \/ Includes(errorMessage, KwNotInstalled)
    \/ Includes(errorMessage, KwNotDetected)
    \/ Includes(errorMessage, KwNoInstalada)
    \/ Includes(errorMessage, KwWalletNoInstalada)
    \/ Includes(errorMessage, KwIsNotInstalled)
    \/ Includes(errorMessage, KwNoConnection)

FreighterMessages ==
    {MsgUserRejected, MsgUserCancelled, MsgRejected, MsgCancelado, MsgTimeout,
     MsgMissing}

\* What requestAccess and getAddress can do: answer { address }, answer an
\* empty address, answer { error }, or throw
ApiAnswers ==
    {[kind |-> "address", message |-> <<>>], [kind |-> "empty", message |-> <<>>]}
        \cup {[kind |-> k, message |-> msg] :
                 k \in {"error", "throws"}, msg \in FreighterMessages}

\* The user rejected or cancelled: the answer is an error, returned or
\* thrown, whose message contains one of the four substrings
UserRejected(answer) ==
    /\ answer.kind \in {"error", "throws"}
    /\ IsRejection(ToLowerCase(answer.message))

CfIdle ==
    [pc |-> "idle", calls |-> <<>>, answers |-> <<>>, rejectedAt |-> 0,
     error |-> <<>>, connected |-> FALSE]

ConnectInit == cf = CfIdle

\* The outer catch of connectFreighter: the error it throws for a caught one
OuterCatch(message) ==
    IF IsNotInstalled(ToLowerCase(message)) THEN MsgNotInstalled
    ELSE IF IsRejection(ToLowerCase(message)) THEN MsgCancelled
    ELSE message

\* connectFreighter has made call and stands at pc, the answer recorded
CfAfter(call, answer, pc) ==
    [cf EXCEPT !.pc = pc, !.calls = Append(cf.calls, call),
               !.answers = Append(cf.answers, answer),
               !.rejectedAt = IF cf.rejectedAt = 0 /\ call = "requestAccess"
                                 /\ UserRejected(answer)
                              THEN Len(cf.calls) + 1 ELSE cf.rejectedAt]

CfThrows(after, message) ==
    [after EXCEPT !.pc = "done", !.error = OuterCatch(message)]

CfReturns(after) == [after EXCEPT !.pc = "done", !.connected = TRUE]

\* connectFreighter is called
CfStart ==
    /\ cf.pc \in {"idle", "done"}
    /\ cf' = [CfIdle EXCEPT !.pc = "isConnected"]

\* await isConnected(): connected, not connected, or it throws (caught)
CfIsConnected ==
    /\ cf.pc = "isConnected"
    /\ \E connected \in BOOLEAN :
         cf' = CfAfter("isConnected",
                       [kind |-> IF connected THEN "connected" ELSE "notConnected",
                        message |-> <<>>],
                       IF connected THEN "getAddress" ELSE "requestAccess")

\* The error the inner try block of the first requestAccess throws for an
\* answer { error }
AccessErrorThrown(message) ==
    IF IsRejection(ToLowerCase(message)) THEN MsgCancelled ELSE message

\* await requestAccess() of the block "if (!connectionStatus.isConnected)",
\* with its catch: what the block throws to the outer catch, <<>> when it
\* returns or falls through to getAddress
AccessBlockThrows(answer) ==
    LET caught == IF answer.kind = "error" THEN AccessErrorThrown(answer.message)
                  ELSE answer.message
    IN IF answer.kind \in {"error", "throws"} /\ IsRejection(ToLowerCase(caught))
       THEN MsgCancelled
       ELSE <<>>

CfRequestAccess ==
    /\ cf.pc = "requestAccess"
    /\ \E answer \in ApiAnswers :
         LET after == CfAfter("requestAccess", answer, "getAddress")
         IN cf' = IF answer.kind = "address" THEN CfReturns(after)
                  ELSE IF AccessBlockThrows(answer) # <<>>
                  THEN CfThrows(after, AccessBlockThrows(answer))
                  ELSE after

\* await getAddress(): an address ends the search; an error or an empty
\* address leads to requestAccess inside the try block, a throw to the
\* requestAccess of its catch
CfGetAddress ==
    /\ cf.pc = "getAddress"
    /\ \E kind \in {"address", "empty", "error", "throws"} :
         LET answer == [kind |-> kind, message |-> MsgTimeout]
         IN cf' = IF kind = "address"
                  THEN CfReturns(CfAfter("getAddress", answer, "done"))
                  ELSE IF kind = "throws"
                  THEN CfAfter("getAddress", answer, "accessInCatch")
                  ELSE CfAfter("getAddress", answer, "accessInTry")

\* await requestAccess() inside the try block of getAddress: a throw is
\* caught by the catch of getAddress
CfAccessInTry ==
    /\ cf.pc = "accessInTry"
    /\ \E answer \in ApiAnswers :
         LET after == CfAfter("requestAccess", answer, "accessInCatch")
         IN cf' = IF answer.kind = "address" THEN CfReturns(after)
                  ELSE IF answer.kind = "throws" THEN after
                  ELSE CfThrows(after, MsgNoPublicKey)

\* await requestAccess() inside the catch of getAddress: its own throw is
\* logged only
CfAccessInCatch ==
    /\ cf.pc = "accessInCatch"
    /\ \E answer \in ApiAnswers :
         LET after == CfAfter("requestAccess", answer, "done")
         IN cf' = IF answer.kind = "address" THEN CfReturns(after)
                  ELSE CfThrows(after, MsgNoPublicKey)

ConnectNext ==
    \/ CfStart
    \/ CfIsConnected
    \/ CfRequestAccess
    \/ CfGetAddress
    \/ CfAccessInTry
    \/ CfAccessInCatch

(***************************************************************************)
(* buildStellarTransaction and generateStellarPaymentQR called on their    *)
(* own (backend/src/services/stellarService.ts)                            *)
(***************************************************************************)

\* qr: the last call of one of the two functions, its arguments and result
VARIABLES qr

qrVars == <<qr>>

QrAmounts == {5, XlmAmount}
QrMemos == {NULL, "trip-1"}
QrAssets == {NULL, "XLM", "USDC"}
QrIssuers == {NULL, "GISSUER"}
QrSources == {NULL, "GSOURCE"}

PaymentDatas ==
    [destination : {DriverAddress, OtherAddress}, amount : QrAmounts,
     memo : QrMemos, asset : QrAssets, assetIssuer : QrIssuers, valid : BOOLEAN]

NoPaymentData ==
    [destination |-> NULL, amount |-> NoAmount, memo |-> NULL, asset |-> NULL,
     assetIssuer |-> NULL, valid |-> FALSE]

NoQrResult ==
    [thrown |-> FALSE, qrCode |-> FALSE, paymentUrl |-> <<>>,
     paymentAddress |-> NULL, expiresAt |-> NoTime, transactionXdr |-> NoXdr]

QrInit ==
    qr = [call |-> "none", paymentData |-> NoPaymentData, source |-> NULL,
          loadOk |-> FALSE, qrOk |-> FALSE, result |-> NoQrResult]

\* buildStellarTransaction(paymentData, sourcePublicKey)
BuildTransactionCall ==
    \E paymentData \in PaymentDatas, source \in QrSources, loadOk \in BOOLEAN :
        LET built == BuildStellarTransaction(paymentData, source, loadOk)
        IN qr' = [call |-> "build", paymentData |-> paymentData, source |-> source,
                  loadOk |-> loadOk, qrOk |-> FALSE,
                  result |-> [NoQrResult EXCEPT
                                 !.thrown = built.thrown,
                                 !.transactionXdr = built.transactionXdr]]

\* generateStellarPaymentQR(paymentData), expiresInMinutes left at its default
GenerateQrCall ==
    \E paymentData \in PaymentDatas, qrOk \in BOOLEAN :
        qr' = [call |-> "generate", paymentData |-> paymentData, source |-> NULL,
               loadOk |-> FALSE, qrOk |-> qrOk,
               result |-> StellarPaymentQR(paymentData, ExpiresInMinutesDefault,
                                           now, qrOk)]

QrNext ==
    \/ Tick /\ UNCHANGED qr
    \/ BuildTransactionCall /\ UNCHANGED payVars
    \/ GenerateQrCall /\ UNCHANGED payVars

vars == <<formVars, walletVars, payVars, horizonVars, autoPayVars, tokenVars,
          statusVars, connectVars, qrVars>>

Init ==
    /\ FormInit /\ WalletInit /\ PayInit /\ HorizonInit /\ AutoPayInit
    /\ TokenInit /\ StatusInit /\ ConnectInit /\ QrInit

FormSpec ==
    Init /\ [][FormNext /\ UNCHANGED <<walletVars, payVars, horizonVars, autoPayVars,
                                        tokenVars, statusVars,
              connectVars, qrVars>>]_vars

WalletSpec ==
    Init /\ [][WalletNext /\ UNCHANGED <<formVars, payVars, horizonVars, autoPayVars,
                                          tokenVars, statusVars,
              connectVars, qrVars>>]_vars

PaySpec ==
    Init /\ [][PayNext /\ UNCHANGED <<formVars, walletVars, horizonVars, autoPayVars,
                                       tokenVars, statusVars,
              connectVars, qrVars>>]_vars

HorizonSpec ==
    Init /\ [][HorizonNext /\ UNCHANGED <<formVars, walletVars, payVars, autoPayVars,
                                           tokenVars, statusVars,
              connectVars, qrVars>>]_vars

AutoPaySpec ==
    Init /\ [][AutoPayNext /\ UNCHANGED <<formVars, walletVars, horizonVars,
                                           tokenVars, statusVars,
              connectVars, qrVars>>]_vars

TokenSpec ==
    Init /\ [][TokenNext /\ UNCHANGED <<formVars, horizonVars, autoPayVars,
                                         statusVars,
              connectVars, qrVars>>]_vars

StatusSpec ==
    Init /\ [][StatusNext /\ UNCHANGED <<formVars, walletVars, payVars, horizonVars,
                                          autoPayVars, tokenVars,
              connectVars, qrVars>>]_vars

ReuseSpec ==
    Init /\ [][ReuseNext /\ UNCHANGED <<formVars, walletVars, horizonVars, autoPayVars,
                                         tokenVars, statusVars,
              connectVars, qrVars>>]_vars

ConnectSpec ==
    Init /\ [][ConnectNext /\ UNCHANGED <<formVars, walletVars, payVars, horizonVars,
                                           autoPayVars, tokenVars, statusVars,
              qrVars>>]_vars

QrSpec ==
    Init /\ [][QrNext /\ UNCHANGED <<formVars, walletVars, horizonVars, autoPayVars,
                                      tokenVars, statusVars, connectVars>>]_vars

(***************************************************************************)
(* Properties                                                              *)
(***************************************************************************)

\* The multiplier handleSubmit is to apply to each price component.
Factor(isRT) == IF isRT THEN 2 ELSE 1

\* C1: every trip handed to api.createTrip carries, for each of basePrice,
\* distancePrice, timePrice and totalPrice, exactly twice the component of the
\* one-way pricing returned by api.calculatePrice when isRoundTrip is true,
\* and the component unchanged when isRoundTrip is false.
C1_RoundTripDoublesPrices ==
    tripData # Null =>
        LET P == priceCall.result
            k == Factor(snap.isRoundTrip)
        IN /\ tripData.isRoundTrip = snap.isRoundTrip
           /\ tripData.basePrice = k * P.basePrice
           /\ tripData.distancePrice = k * P.distancePrice
           /\ tripData.timePrice = k * P.timePrice
           /\ tripData.totalPrice = k * P.totalPrice

C1_Witness ==
    /\ tripData # Null
    /\ tripData.isRoundTrip
    /\ priceCall.result.timePrice > 0
    /\ tripData.totalPrice = 2 * priceCall.result.totalPrice

\* What the onChange handler of the passengers input stores for each text:
\* 1 for no number and for a number below 1, 7 for a number above 7, the
\* number itself otherwise.
C2_OnChangeClamps ==
    \A text \in PassengerInputs :
        LET v == ParseInt(text)
            p == PassengersOnChange(text)
        IN /\ v.nan => p = 1
           /\ ~v.nan /\ v.value < 1 => p = 1
           /\ ~v.nan /\ v.value > 7 => p = 7
           /\ ~v.nan /\ v.value \in 1..7 => p = v.value

\* C2: whatever is typed into the passengers input, the passengers state and
\* the passengers field of every submitted trip is an integer in 1..7; a
\* typed value below 1 (or no number at all) gives 1, a value above 7 gives 7.
C2_PassengersClamped ==
    /\ passengers \in 1..7
    /\ tripData # Null => tripData.passengers \in 1..7
    /\ C2_OnChangeClamps

C2_Witness ==
    /\ passengers = 7
    /\ tripData # Null
    /\ tripData.passengers = 7

\* C4: the distance component of a submitted trip is computed with 65% of the
\* per-kilometre rate of the trip's country when the preferred vehicle type
\* is SEDAN, and with the full rate for every other choice, "ANY" included.
C4_SedanDiscount ==
    tripData # Null =>
        LET k == Factor(snap.isRoundTrip)
            rate == RatePerKmOf(snap.tripCountry)
            d == snap.routeInfo.distance
        IN IF snap.preferredVehicleType = "SEDAN"
           THEN tripData.distancePrice = k * ((d * rate * 65) \div 100)
           ELSE tripData.distancePrice = k * d * rate

C4_Witness ==
    /\ tripData # Null
    /\ snap.preferredVehicleType = "SEDAN"
    /\ tripData.distancePrice > 0

\* The rule of the claim: the address is absent, is not a string, does not
\* start with "G" or is not 56 characters long.
C3_Rejectable(body) ==
    \/ body.type = "undefined"
    \/ body.type # "string"
    \/ body.text = <<>>
    \/ body.text[1] # "G"
    \/ Len(body.text) # 56

\* C3: POST /api/wallet/verify-connection/:token answers 400 to every
\* stellarAddress that is missing, not a string, not starting with "G" or not
\* 56 characters long, and leaves the stored address as it was; the
\* MobileWalletConnect page calls the endpoint only for an input that starts
\* with "G" and is 56 characters long.
C3_InvalidAddressRejected ==
    /\ walletLast # Null /\ C3_Rejectable(walletLast.body) =>
          /\ walletLast.status = 400
          /\ ~walletLast.changed
    /\ mwcCall # Null =>
          /\ mwcCall.input # <<>>
          /\ mwcCall.input[1] = "G"
          /\ Len(mwcCall.input) = 56

C3_Witness ==
    /\ walletLast # Null
    /\ walletLast.body = [type |-> "string", text |-> AddrLong]
    /\ walletLast.status = 400
    /\ userStellarAddress[walletLast.user] = AddrG2
    /\ mwcCall # Null

\* The status changes the data model allows for a trip.
C5_Allowed ==
    { <<"PENDING", "CONFIRMED">>, <<"CONFIRMED", "IN_PROGRESS">>,
      <<"IN_PROGRESS", "COMPLETED">>, <<"PENDING", "CANCELLED">>,
      <<"CONFIRMED", "CANCELLED">>, <<"IN_PROGRESS", "CANCELLED">> }

\* C5: every change of Trip.status is a step of PENDING -> CONFIRMED ->
\* IN_PROGRESS -> COMPLETED or a step to CANCELLED; in particular the verify
\* route moves a trip to COMPLETED only from IN_PROGRESS.
C5_StatusTransitions ==
    [][\A t \in Trips :
          trip'[t].status # trip[t].status =>
              <<trip[t].status, trip'[t].status>> \in C5_Allowed]_vars

\* Whether verifyStellarTransaction answers verified for transaction tx and
\* payment p when Horizon can be reached.
C6_Verifies(tx, p) ==
    VerifyStellarTransaction(HorizonGet(ledger, BackendHorizonNetwork, tx, TRUE),
                             StellarAddressOf(payment[p]),
                             payment[p].xlmAmount).verified

\* C6: a trip is COMPLETED only through the verify route, and then its
\* stellarTransactionId is a transaction for which verifyStellarTransaction
\* answers verified = true for the payment, and that payment is COMPLETED.
C6_CompletedOnlyAfterVerified ==
    \A t \in Trips :
        trip[t].status = "COMPLETED" =>
            /\ trip[t].completedVia \in Payments
            /\ payment[trip[t].completedVia].tripId = t
            /\ payment[trip[t].completedVia].status = "COMPLETED"
            /\ C6_Verifies(trip[t].stellarTransactionId, trip[t].completedVia)

C6_Witness ==
    \E t \in Trips :
        /\ trip[t].status = "COMPLETED"
        /\ trip[t].stellarTransactionId = "txGood2"
        /\ payment[trip[t].completedVia].status = "COMPLETED"

\* C8 as stated: the verify route writes only when every condition held, and
\* otherwise answers 401, 400, 404 or 403 with a message and writes nothing.
C8_OnlyClientErrors ==
    \A r \in Reqs :
        /\ req[r].wrote => req[r].eligible
        /\ req[r].pc = "done" /\ ~req[r].eligible =>
              /\ req[r].status \in {401, 400, 404, 403}
              /\ req[r].message # NULL
              /\ ~req[r].wrote

\* C8 amended: the verify route writes only when every condition held when it
\* looked the payment up; otherwise it answers 401, 400, 404, 403, or 500
\* when that lookup throws, with a message, and writes nothing.
C8_ErrorsLeaveRecords ==
    \A r \in Reqs :
        /\ req[r].wrote => req[r].eligible
        /\ req[r].pc = "done" /\ ~req[r].eligible =>
              /\ req[r].status \in {401, 400, 404, 403, 500}
              /\ req[r].message # NULL
              /\ ~req[r].wrote

C8_Witness ==
    \E r, q \in Reqs :
        /\ req[r].pc = "done" /\ req[r].status = 403 /\ ~req[r].wrote
        /\ req[q].pc = "done" /\ req[q].status = 200 /\ req[q].wrote

\* C10: a payment is never completed by the verify route after the
\* paymentExpiresAt of its trip (30 minutes after the QR was generated).
C10_NoCompletionAfterExpiry ==
    \A p \in Payments :
        payment[p].exists /\ payment[p].status = "COMPLETED" =>
            payment[p].processedAt <= trip[payment[p].tripId].paymentExpiresAt

\* An amount within 1% of the expected amount, above or below.
C7_WithinOnePercent(amount, expectedAmount) ==
    /\ amount * 100 >= expectedAmount * 99
    /\ amount * 100 <= expectedAmount * 101

\* C7: verifyStellarTransaction answers verified = true exactly when the
\* lookup succeeded, the transaction is successful and one of its operations
\* is a payment to the expected destination of an amount within 1% of the
\* expected amount; otherwise it answers verified = false with an error.
C7_VerifiedIffWithinOnePercent ==
    hz.called =>
        /\ hz.result.verified <=>
              /\ hz.response.fetch = "ok"
              /\ hz.response.successful
              /\ \E op \in hz.response.operations :
                    /\ op.type = "payment"
                    /\ op.to = hz.expectedDestination
                    /\ C7_WithinOnePercent(op.amount, hz.expectedAmount)
        /\ ~hz.result.verified => hz.result.error # NULL

\* C9: once the pay button has submitted a transaction that Horizon recorded
\* as successful, the backend looks it up on the Horizon it was submitted to,
\* and the verify route, when it reaches Horizon and its database, answers 200.
C9_SubmittedPaymentVerifies ==
    ap.transactionId # NULL =>
        /\ BackendHorizonNetwork = ap.submitNetwork
        /\ ap.pc \in {"paid", "ready"} /\ req[ApReq].pc = "done"
           /\ req[ApReq].status # 500
           /\ req[ApReq].message # "Error al verificar la transaccion"
           => req[ApReq].status = 200 /\ ap.isPaid

\* C11: verify-connection stores the submitted address only when :token was
\* issued by generate-connection-qr to the requesting user less than 10
\* minutes before the request; an unknown or expired token changes nothing.
C11_OnlyIssuedFreshToken ==
    walletLast # Null /\ walletLast.changed =>
        /\ tokenLast.token \in Tokens
        /\ issued[tokenLast.token].user = walletLast.user
        /\ issued[tokenLast.token].at <= tokenLast.at
        /\ tokenLast.at < issued[tokenLast.token].expiresAt

\* Every status check has been answered and no handler is awaiting.
C12_Settled ==
    /\ PendingTotal("settings") = 0 /\ PendingTotal("menu") = 0
    /\ walletOp.settings = "idle" /\ walletOp.menu = "idle"

\* C12: once every pending status check has completed, a profile without
\* stellarAddress is shown as disconnected (isConnected = false, publicKey =
\* null) by Settings and by UserMenu, whatever Freighter answered.
C12_DisconnectedProfileShown ==
    C12_Settled /\ profileAddress = "" =>
        /\ ~freighterStatus.isConnected /\ freighterStatus.publicKey = NULL
        /\ ~walletStatus.isConnected /\ walletStatus.publicKey = NULL

\* C13: a submitted round trip carries a returnScheduledAt, a round trip
\* without a return date never gets as far as api.calculatePrice, and a
\* submitted one-way trip carries no returnScheduledAt.
C13_RoundTripCarriesReturnDate ==
    /\ submitPc # "idle" /\ snap.isRoundTrip => snap.returnScheduledAt # EmptyDate
    /\ tripData # Null =>
          IF tripData.isRoundTrip
          THEN tripData.returnScheduledAt # NoDate
          ELSE tripData.returnScheduledAt = NoDate

\* C14: in every submitted round trip that has both dates, returnScheduledAt
\* is later than scheduledAt.
C14_ReturnAfterDeparture ==
    tripData # Null /\ tripData.isRoundTrip
        /\ tripData.scheduledAt # NoDate /\ tripData.returnScheduledAt # NoDate
        => tripData.returnScheduledAt > tripData.scheduledAt

C16_MissingInput == origin = Null \/ destination = Null \/ routeInfo = Null

C16_NoCallWithoutInputs ==
    [][/\ submitPc = "idle" /\ submitPc' # "idle"
          => ~C16_MissingInput /\ snap'.origin # Null
             /\ snap'.destination # Null /\ snap'.routeInfo # Null
       /\ C16_MissingInput
          => /\ submitPc' = "idle" /\ ~isLoading /\ ~isLoading'
             /\ priceCall' = Null /\ tripData' = Null
       /\ C16_MissingInput /\ toastError' # NULL /\ toastError' # toastError
          => /\ toastError' \in {"selectBothLocations", "calculateRouteFirst"}
             /\ UNCHANGED <<origin, destination, routeInfo, passengers,
                            isRoundTrip, returnScheduledAt, scheduledAt,
                            preferredVehicleType, isLoading, userCountry,
                            submitPc, snap, priceCall, tripData>>]_vars

\* handleSubmit has just refused a form without a route
C16_Witness ==
    /\ origin # Null /\ destination # Null /\ routeInfo = Null
    /\ toastError = "calculateRouteFirst"
    /\ submitPc = "idle" /\ ~isLoading

\* C17: the country used for pricing is the first present of the origin's
\* country, the destination's country and the user's country, and 'CL' when
\* none is present, both in calculateRouteAndPrice and in handleSubmit.
C17_FirstPresent(o, d, u) ==
    LET candidates == <<o.country # "", d.country # "", u # NULL, TRUE>>
        values == <<o.country, d.country, u, "CL">>
        first == CHOOSE i \in 1..4 :
                     candidates[i] /\ \A j \in 1..(i - 1) : ~candidates[j]
    IN values[first]

C17_CountryPriority ==
    /\ routeCall # Null =>
          routeCall.country =
              C17_FirstPresent(routeCall.origin, routeCall.destination, routeCall.user)
    /\ submitPc # "idle" =>
          snap.tripCountry = C17_FirstPresent(snap.origin, snap.destination, userCountry)
    /\ priceCall # Null => priceCall.country = snap.tripCountry

\* Neither place carries a country and the user's country priced the trip,
\* after a route was calculated with it
C17_Witness ==
    /\ priceCall # Null /\ priceCall.country = "PE"
    /\ snap.origin.country = "" /\ snap.destination.country = ""
    /\ routeCall # Null /\ routeCall.country = "PE"

\* C18: a Stellar transaction id completes at most one payment: no two
\* payments are COMPLETED with the same transactionId.
C18_TransactionCompletesOnePayment ==
    \A p, q \in Payments :
        /\ p # q
        /\ payment[p].status = "COMPLETED" /\ payment[q].status = "COMPLETED"
        => payment[p].transactionId # payment[q].transactionId

\* C19: concurrent verify requests for one payment complete it at most once:
\* no two requests have both written the transactionId and processedAt of
\* the same payment.
C19_CompletedAtMostOnce ==
    \A r, s \in Reqs :
        r # s /\ req[r].wrote /\ req[s].wrote
        => req[r].paymentId # req[s].paymentId

\* C20: whenever no verify request stands between its two updates, a
\* COMPLETED payment with a tripId belongs to a COMPLETED trip whose
\* stellarTransactionId is the payment's transactionId.
C20_PaymentAndTripTogether ==
    (\A r \in Reqs : req[r].pc # "updateTrip") =>
        \A p \in Payments :
            payment[p].exists /\ payment[p].status = "COMPLETED"
                /\ payment[p].tripId # NULL
            => /\ trip[payment[p].tripId].status = "COMPLETED"
               /\ trip[payment[p].tripId].stellarTransactionId
                      = payment[p].transactionId

\* C21: for one trip the pay button gets at most one transaction signed and
\* submitted successfully: signAndSubmitTransaction returns success at most
\* once, whatever the verification that follows answers.
C21_AtMostOneSubmission == ap.submitted <= 1

\* C22: isPaid is set only after the wallet was connected, a transaction XDR
\* was available, signAndSubmitTransaction returned success and the
\* verification answered verified, in this order; a run of handlePay that
\* ends otherwise leaves isPaid false and an error message recorded; isPaying
\* is true exactly while a run is in flight.
C22_InFlight == ap.pc \in {"getNetwork", "submit", "verify", "awaiting"}

C22_PaidOnlyAfterVerified ==
    /\ ap.isPaid =>
          /\ ap.connection = "connected" /\ ap.hasXdr
          /\ ap.signed /\ ap.verified
          /\ req[ApReq].pc = "done" /\ req[ApReq].status = 200
          /\ ap.ended = "paid"
    /\ ap.verified => ap.signed /\ ap.isPaid
    /\ ap.signed => ap.transactionId # NULL /\ ap.hasXdr
    /\ C22_InFlight => ap.connection = "connected" /\ ap.hasXdr /\ ap.ended = "none"
    /\ ap.ended = "failed" => ~ap.isPaid /\ ap.error # NULL
    /\ ap.ended = "paid" => ap.isPaid /\ ap.error = NULL
    /\ ap.isPaying <=> C22_InFlight

\* The button shows 'Pago completado' after a run that passed every step
C22_Witness ==
    /\ ap.isPaid /\ ap.signed /\ ap.verified /\ ~ap.isPaying
    /\ req[ApReq].status = 200

\* C23: once the user has rejected or cancelled a requestAccess,
\* connectFreighter has failed with 'Conexion cancelada por el usuario' and
\* has made no further call of the Freighter API.
C23_RejectionEndsConnect ==
    cf.rejectedAt # 0 =>
        /\ cf.pc = "done" /\ ~cf.connected
        /\ cf.error = MsgCancelled
        /\ Len(cf.calls) = cf.rejectedAt

\* C24: whenever the page renders the payment component, the paymentId it
\* passes is the id of an existing Stellar payment of the trip.
C24_PaymentIdNamesPayment ==
    PaymentComponentShown =>
        /\ ap.paymentId \in Payments
        /\ payment[ap.paymentId].exists
        /\ payment[ap.paymentId].method = "STELLAR"
        /\ payment[ap.paymentId].tripId \in PayTrips

\* C25: the payment component and the cancel action are never both offered
\* for the same loaded trip.
C25_PayAndCancelExclusive == ~(PaymentComponentShown /\ CancelActionOffered)

\* C26: generateStellarPaymentQR never fails because the transaction could
\* not be built: it throws only when the QR image cannot be made; when it
\* returns, the URI carries destination and amount, transactionXdr is
\* undefined when the build failed, and the URI has the xdr parameter
\* exactly when an XDR was built. buildStellarTransaction builds without the
\* source account when loading it fails.
C26_QrSurvivesBuildFailure ==
    /\ qr.call = "generate" =>
          /\ qr.result.thrown <=> ~qr.qrOk
          /\ ~qr.result.thrown =>
                /\ qr.result.qrCode
                /\ qr.result.paymentUrl[1] = Param("destination", qr.paymentData.destination)
                /\ qr.result.paymentUrl[2] = Param("amount", qr.paymentData.amount)
                /\ qr.result.paymentAddress = qr.paymentData.destination
                /\ (qr.result.transactionXdr # NoXdr) <=> qr.paymentData.valid
                /\ HasParam(qr.result.paymentUrl, "xdr")
                      <=> qr.result.transactionXdr # NoXdr
    /\ qr.call = "build" /\ qr.source # NULL /\ ~qr.loadOk /\ qr.paymentData.valid =>
          /\ ~qr.result.thrown
          /\ qr.result.transactionXdr = PaymentTransaction(qr.paymentData, TempAccount)

\* The build failed altogether and the function returned a QR code without XDR
C26_Witness ==
    /\ qr.call = "generate" /\ ~qr.paymentData.valid /\ ~qr.result.thrown
    /\ qr.result.qrCode /\ qr.result.transactionXdr = NoXdr
    /\ ~HasParam(qr.result.paymentUrl, "xdr")

====
